---- MODULE Spec2Model ----
(***************************************************************************)
(* Model of monitorswitch's DDC client (DDCClientImpl): the OS dispatch    *)
(* facade, the tool availability scanners, the macOS validation round      *)
(* trip and the external helper invocations.  One action is one handler,   *)
(* or the part of a handler between two helper process invocations.        *)
(***************************************************************************)
EXTENDS Integers, Sequences, FiniteSets, TLC

(* ------------------------------------------------------------------ *)
(* Bounds of the model                                                  *)
(* ------------------------------------------------------------------ *)
MaxDisplays == 2

\* lines of the texts the parsers are applied to
MaxLines == 3
MaxFileLines == 2
MaxBuses == 2

(* ------------------------------------------------------------------ *)
(* Program constants                                                    *)
(* ------------------------------------------------------------------ *)
OSLinux == "linux"
OSMacOS == "darwin"
OSWindows == "windows"

\* an OSType outside the three the client knows (OSType is a string type)
OSOther == "freebsd"

OSTypes == {OSLinux, OSMacOS, OSWindows, OSOther}

\* the helper binaries the scanners look up in the executable search path
DDCTools == {"m1ddc", "ddcctl", "ddcutil", "ddccontrol"}

\* width of uint16 (brightness and VCP values)
Uint16Mod == 65536

\* ceiling of the brightness range used by testWriteBrightness
BrightnessCeiling == 100

\* step of the probe
ProbeStep == 10

\* fallback probe value
ProbeFallback == 50

\* context deadlines of the helper invocations, in seconds (0: none)
NoDeadline == 0
InputTestDeadline == 1
CurrentInputDeadline == 2
BrightnessDeadline == 3
GetVCPDeadline == 3
SetVCPDeadline == 5

SupportedCodes == {16, 18, 96, 98}

\* VCP codes the model passes to SetVCP / GetVCP: the four supported ones
\* and another (0x14, colour preset)
VCPCodes == SupportedCodes \cup {20}

VCPValues == {17, 50}

MonitorIDs == {"1", "2", "HDMI-1"}

\* brightness levels a display can be at when a call starts
Levels == {5, 50, 95}

NoCmd == [kind |-> "nil", bin |-> "", argv |-> << >>, err |-> ""]

NoValidation ==
    [ToolAvailable |-> FALSE, CanReadValues |-> FALSE, CanWriteValues |-> FALSE,
     ValidationError |-> "unset", RecommendedAction |-> ""]

NoMonitor == [ID |-> "", Name |-> "", Inputs |-> {}, CurrentInput |-> ""]

NoArgs == [monitorID |-> "", code |-> 0, value |-> 0]

(* ------------------------------------------------------------------ *)
(* Pure functions                                                       *)
(* ------------------------------------------------------------------ *)

(* ------------------------------------------------------------------ *)
(* Text: the functions of Go's strings, strconv and regexp packages the *)
(* parsers use, on strings (positions count from 1)                     *)
(* ------------------------------------------------------------------ *)

\* the characters unicode.IsSpace accepts, of those the model's texts hold
Whitespace == {" ", "\t", "\n", "\r"}

DecimalDigits == <<"0", "1", "2", "3", "4", "5", "6", "7", "8", "9">>

HexDigits == <<"0", "1", "2", "3", "4", "5", "6", "7",
               "8", "9", "A", "B", "C", "D", "E", "F">>

LowerHexDigits == <<"0", "1", "2", "3", "4", "5", "6", "7",
                    "8", "9", "a", "b", "c", "d", "e", "f">>

Range(f) == {f[k] : k \in DOMAIN f}

Digits == Range(DecimalDigits)

CharAt(s, i) == SubSeq(s, i, i)

Suffix(s, i) == SubSeq(s, i, Len(s))

Least(S) == CHOOSE i \in S : \A j \in S : i <= j

Greatest(S) == CHOOSE i \in S : \A j \in S : j <= i

\* strings.HasPrefix
HasPrefix(s, prefix) ==
    /\ Len(s) >= Len(prefix)
    /\ SubSeq(s, 1, Len(prefix)) = prefix

\* strings.Index, 0 when substr does not occur
Index(s, substr) ==
    LET hits == {i \in 1..(Len(s) - Len(substr) + 1) :
                    SubSeq(s, i, i + Len(substr) - 1) = substr}
    IN  IF hits = {} THEN 0 ELSE Least(hits)

\* strings.Contains
Contains(s, substr) == Index(s, substr) # 0

\* strings.TrimPrefix
TrimPrefix(s, prefix) ==
    IF HasPrefix(s, prefix) THEN Suffix(s, Len(prefix) + 1) ELSE s

\* strings.TrimSpace
TrimSpace(s) ==
    LET solid == {i \in 1..Len(s) : CharAt(s, i) \notin Whitespace}
    IN  IF solid = {} THEN "" ELSE SubSeq(s, Least(solid), Greatest(solid))

\* strings.Split(s, sep) for a non-empty sep
RECURSIVE Split(_, _)
Split(s, sep) ==
    LET i == Index(s, sep)
    IN  IF i = 0 THEN <<s>>
        ELSE <<SubSeq(s, 1, i - 1)>> \o Split(Suffix(s, i + Len(sep)), sep)

\* strings.Fields
RECURSIVE Fields(_)
Fields(s) ==
    LET solid == {i \in 1..Len(s) : CharAt(s, i) \notin Whitespace}
    IN  IF solid = {} THEN << >>
        ELSE LET from == Least(solid)
                 gaps == {i \in from..Len(s) : CharAt(s, i) \in Whitespace}
                 to == IF gaps = {} THEN Len(s) ELSE Least(gaps) - 1
             IN  <<SubSeq(s, from, to)>> \o Fields(Suffix(s, to + 1))

\* the value of a digit in a digit table, -1 when it is none of them
DigitValue(c, table) ==
    IF \E k \in DOMAIN table : table[k] = c
    THEN (CHOOSE k \in DOMAIN table : table[k] = c) - 1
    ELSE -1

\* the number a string of decimal digits denotes
RECURSIVE DecimalValue(_)
DecimalValue(s) ==
    IF s = "" THEN 0
    ELSE 10 * DecimalValue(SubSeq(s, 1, Len(s) - 1))
         + DigitValue(CharAt(s, Len(s)), DecimalDigits)

AllDigits(s) == \A i \in 1..Len(s) : CharAt(s, i) \in Digits

\* strconv.Atoi (the texts of the model carry no sign and stay within int)
Atoi(s) ==
    IF s # "" /\ AllDigits(s)
    THEN [ok |-> TRUE, n |-> DecimalValue(s)]
    ELSE [ok |-> FALSE, n |-> 0]

HexValue(c) ==
    IF DigitValue(c, HexDigits) >= 0 THEN DigitValue(c, HexDigits)
    ELSE DigitValue(c, LowerHexDigits)

RECURSIVE HexNumber(_)
HexNumber(s) ==
    IF s = "" THEN 0
    ELSE 16 * HexNumber(SubSeq(s, 1, Len(s) - 1)) + HexValue(CharAt(s, Len(s)))

\* strconv.ParseUint(s, 16, 8)
ParseUint8Hex(s) ==
    IF /\ s # ""
       /\ \A i \in 1..Len(s) : HexValue(CharAt(s, i)) >= 0
       /\ HexNumber(s) < 256
    THEN [ok |-> TRUE, n |-> HexNumber(s)]
    ELSE [ok |-> FALSE, n |-> 0]

\* the elements of the regular expressions of the parsers: a literal, a run
\* of at least min characters of a class (captured or not), the anchors
Lit(text) == [kind |-> "lit", text |-> text, min |-> 0, capture |-> FALSE]
Spaces(min) == [kind |-> "space", text |-> "", min |-> min, capture |-> FALSE]
Number == [kind |-> "digit", text |-> "", min |-> 1, capture |-> FALSE]
CapturedNumber == [kind |-> "digit", text |-> "", min |-> 1, capture |-> TRUE]
TextStart == [kind |-> "start", text |-> "", min |-> 0, capture |-> FALSE]
TextEnd == [kind |-> "end", text |-> "", min |-> 0, capture |-> FALSE]

NoMatch == [ok |-> FALSE, capture |-> ""]

\* the end of the longest run of characters of class from position i on
\* (i - 1 when there is none)
RunEnd(s, i, class) ==
    LET stops == {j \in i..Len(s) : CharAt(s, j) \notin class}
    IN  IF stops = {} THEN Len(s) ELSE Least(stops) - 1

\* the match of pattern[k..] at position i of s.  In every expression of
\* the parsers a run is followed by a character outside its class, by an
\* anchor or by nothing, so the greedy run is the only one that can match
RECURSIVE MatchAt(_, _, _, _, _)
MatchAt(s, i, pattern, k, captured) ==
    IF k > Len(pattern) THEN [ok |-> TRUE, capture |-> captured]
    ELSE LET e == pattern[k]
         IN  CASE e.kind = "lit" ->
                    IF HasPrefix(Suffix(s, i), e.text)
                    THEN MatchAt(s, i + Len(e.text), pattern, k + 1, captured)
                    ELSE NoMatch
               [] e.kind \in {"space", "digit"} ->
                    LET to == RunEnd(s, i, IF e.kind = "space" THEN Whitespace
                                            ELSE Digits)
                    IN  IF to - i + 1 >= e.min
                        THEN MatchAt(s, to + 1, pattern, k + 1,
                                     IF e.capture THEN SubSeq(s, i, to) ELSE captured)
                        ELSE NoMatch
               [] e.kind = "start" ->
                    IF i = 1 THEN MatchAt(s, i, pattern, k + 1, captured) ELSE NoMatch
               [] OTHER ->
                    IF i = Len(s) + 1 THEN MatchAt(s, i, pattern, k + 1, captured)
                    ELSE NoMatch

\* regexp.FindStringSubmatch for an expression with one capturing group:
\* the leftmost match
FindStringSubmatch(pattern, s) ==
    LET hits == {i \in 1..(Len(s) + 1) : MatchAt(s, i, pattern, 1, "").ok}
    IN  IF hits = {} THEN NoMatch ELSE MatchAt(s, Least(hits), pattern, 1, "")

\* exec.LookPath(name) returns err == nil
Resolves(name, path) == name \in path

detectAvailableDDCTool(path) ==
    IF Resolves("m1ddc", path) THEN "m1ddc"
    ELSE IF Resolves("ddcctl", path) THEN "ddcctl"
    ELSE IF ~Resolves("ddcutil", path) THEN "ddcutil"
    ELSE IF ~Resolves("ddccontrol", path) THEN "ddccontrol"
    ELSE ""

detectAvailableDDCToolsLinux(path) ==
    IF ~Resolves("ddcutil", path) THEN "ddcutil"
    ELSE IF ~Resolves("ddccontrol", path) THEN "ddccontrol"
    ELSE ""

ddcctlFlag(code) ==
    CASE code = 16 -> "-b"
      [] code = 18 -> "-c"
      [] code = 96 -> "-i"
      [] code = 98 -> "-v"
      [] OTHER -> ""

m1ddcFeature(code) ==
    CASE code = 16 -> "luminance"
      [] code = 18 -> "contrast"
      [] code = 96 -> "input"
      [] code = 98 -> "volume"
      [] OTHER -> ""

\* the switch of setMacOSVCP that builds cmd
setMacOSVCPCommand(t, code, d, value) ==
    CASE t = "ddcctl" ->
           IF ddcctlFlag(code) # ""
           THEN [kind |-> "cmd", bin |-> "ddcctl",
                 argv |-> <<"-d", ToString(d), ddcctlFlag(code), ToString(value)>>,
                 err |-> ""]
           ELSE [kind |-> "err", bin |-> "", argv |-> << >>,
                 err |-> "unsupported VCP code for ddcctl"]
      [] t = "m1ddc" ->
           IF m1ddcFeature(code) # ""
           THEN [kind |-> "cmd", bin |-> "m1ddc",
                 argv |-> <<"display", ToString(d), "set", m1ddcFeature(code), ToString(value)>>,
                 err |-> ""]
           ELSE [kind |-> "err", bin |-> "", argv |-> << >>,
                 err |-> "unsupported VCP code for m1ddc"]
      [] OTHER -> NoCmd

\* the switch of getMacOSVCP that builds cmd; the m1ddc branch has no default
getMacOSVCPCommand(t, code, d) ==
    CASE t = "ddcctl" ->
           IF ddcctlFlag(code) # ""
           THEN [kind |-> "cmd", bin |-> "ddcctl",
                 argv |-> <<"-d", ToString(d), ddcctlFlag(code), "?">>,
                 err |-> ""]
           ELSE [kind |-> "err", bin |-> "", argv |-> << >>,
                 err |-> "unsupported VCP code for ddcctl"]
      [] t = "m1ddc" ->
           IF m1ddcFeature(code) # ""
           THEN [kind |-> "cmd", bin |-> "m1ddc",
                 argv |-> <<"display", ToString(d), "get", m1ddcFeature(code)>>,
                 err |-> ""]
           ELSE NoCmd
      [] OTHER -> NoCmd

\* the command of testReadBrightness
readBrightnessCommand(t, d) ==
    CASE t = "m1ddc" ->
           [kind |-> "cmd", bin |-> "m1ddc",
            argv |-> <<"display", ToString(d), "get", "luminance">>, err |-> ""]
      [] t = "ddcctl" ->
           [kind |-> "cmd", bin |-> "ddcctl",
            argv |-> <<"-d", ToString(d), "-b", "?">>, err |-> ""]
      [] OTHER -> NoCmd

\* the command of setBrightnessValue
setBrightnessCommand(t, d, value) ==
    CASE t = "m1ddc" ->
           [kind |-> "cmd", bin |-> "m1ddc",
            argv |-> <<"display", ToString(d), "set", "luminance", ToString(value)>>,
            err |-> ""]
      [] t = "ddcctl" ->
           [kind |-> "cmd", bin |-> "ddcctl",
            argv |-> <<"-d", ToString(d), "-b", ToString(value)>>, err |-> ""]
      [] OTHER -> NoCmd

\* the command of getCurrentInputSafe
currentInputCommand(t, d) ==
    CASE t = "m1ddc" ->
           [kind |-> "cmd", bin |-> "m1ddc",
            argv |-> <<"display", ToString(d), "get", "input">>, err |-> ""]
      [] t = "ddcctl" ->
           [kind |-> "cmd", bin |-> "ddcctl",
            argv |-> <<"-d", ToString(d), "-i", "?">>, err |-> ""]
      [] OTHER -> NoCmd

\* probeValue clamped to the ceiling instead of stepping down
probeValue_ClampedToCeiling(originalBrightness) ==
    LET t == (originalBrightness + ProbeStep) % Uint16Mod
    IN  IF t > BrightnessCeiling THEN BrightnessCeiling ELSE t

\* probeValue with the ceiling test written >= instead of >
probeValue_CeilingInclusive(originalBrightness) ==
    LET t == (originalBrightness + ProbeStep) % Uint16Mod
    IN  IF t >= BrightnessCeiling
        THEN IF originalBrightness >= ProbeStep
             THEN originalBrightness - ProbeStep
             ELSE ProbeFallback
        ELSE t

\* the probe value of testWriteBrightness (uint16 arithmetic)
probeValue(originalBrightness) ==
    LET t == (originalBrightness + ProbeStep) % Uint16Mod
    IN  IF t > BrightnessCeiling
        THEN IF originalBrightness >= ProbeStep
             THEN originalBrightness - ProbeStep
             ELSE ProbeFallback
        ELSE t


\* the set of sequences over S of length 0..n
RECURSIVE SeqsUpTo(_, _)
SeqsUpTo(S, n) ==
    IF n = 0 THEN {<< >>}
    ELSE LET shorter == SeqsUpTo(S, n - 1)
         IN  shorter \cup {Append(q, x) : q \in {r \in shorter : Len(r) = n - 1}, x \in S}

\* entries of the system_profiler inventory (SPDisplaysDataType[].spdisplays_ndrvs[])
InventoryEntries ==
    { [ConnectionType |-> "spdisplays_internal", Name |-> "Color LCD",
       DisplayVendorID |-> "610", DisplayID |-> "1"],
      [ConnectionType |-> "", Name |-> "DELL U2720Q",
       DisplayVendorID |-> "10ac", DisplayID |-> "2"],
      [ConnectionType |-> "", Name |-> "",
       DisplayVendorID |-> "1e6d", DisplayID |-> "3"],
      [ConnectionType |-> "", Name |-> "(null)",
       DisplayVendorID |-> "ffff", DisplayID |-> "4"] }

Inventories == SeqsUpTo(InventoryEntries, MaxDisplays)

getVendorName(vendorID) ==
    CASE vendorID = "610" -> "Apple"
      [] vendorID = "5e3" -> "ASUS"
      [] vendorID = "10ac" -> "Dell"
      [] vendorID = "1e6d" -> "LG"
      [] vendorID = "4c2d" -> "Samsung"
      [] OTHER -> ""

getDisplayName(ndrv) ==
    IF ndrv.Name # "" /\ ndrv.Name # "(null)" THEN ndrv.Name
    ELSE IF getVendorName(ndrv.DisplayVendorID) # ""
         THEN getVendorName(ndrv.DisplayVendorID) \o " Display"
         ELSE "External Display " \o ndrv.DisplayID

\* the Monitor getSystemProfilerDisplays builds for one external entry
inventoryMonitor(ndrv) ==
    [ID |-> ndrv.DisplayID,
     Name |-> IF ndrv.Name # "" /\ ndrv.Name # "(null)" THEN ndrv.Name
              ELSE getDisplayName(ndrv),
     Inputs |-> {},
     CurrentInput |-> ""]

\* inventoryMonitors without the test of the connection type
RECURSIVE inventoryMonitors_InternalKept(_)
inventoryMonitors_InternalKept(inv) ==
    IF inv = << >> THEN << >>
    ELSE <<inventoryMonitor(Head(inv))>> \o inventoryMonitors_InternalKept(Tail(inv))

\* the loop of getSystemProfilerDisplays over the parsed inventory
RECURSIVE inventoryMonitors(_)
inventoryMonitors(inv) ==
    IF inv = << >> THEN << >>
    ELSE IF Head(inv).ConnectionType = "spdisplays_internal"
         THEN inventoryMonitors(Tail(inv))
         ELSE <<inventoryMonitor(Head(inv))>> \o inventoryMonitors(Tail(inv))

\* result of getSystemProfilerDisplays for a helper outcome and the inventory
\* its output holds ("unparsable": exit 0, json.Unmarshal fails)
getSystemProfilerDisplays(outcome, inv) ==
    IF outcome \notin {"ok", "unparsable"}
    THEN [monitors |-> << >>, err |-> "system_profiler command failed"]
    ELSE IF outcome = "unparsable"
    THEN [monitors |-> << >>, err |-> "failed to parse system_profiler output"]
    ELSE IF inventoryMonitors(inv) = << >>
    THEN [monitors |-> << >>,
          err |-> "no external monitors found in system_profiler output"]
    ELSE [monitors |-> inventoryMonitors(inv), err |-> ""]

\* fmt.Sprintf("%02X", code) for a byte
Hex2(code) == HexDigits[(code \div 16) + 1] \o HexDigits[(code % 16) + 1]

\* linuxInputCodeToName with the names of 0x11 and 0x12 exchanged
linuxInputCodeToName_HDMISwapped(code) ==
    CASE code = 15 -> "DisplayPort"
      [] code = 17 -> "HDMI-2"
      [] code = 18 -> "HDMI-1"
      [] code = 19 -> "HDMI-3"
      [] code = 3 -> "DVI-1"
      [] code = 4 -> "DVI-2"
      [] code = 1 -> "VGA"
      [] OTHER -> "Input-0x" \o Hex2(code)

linuxInputCodeToName(code) ==
    CASE code = 15 -> "DisplayPort"
      [] code = 17 -> "HDMI-1"
      [] code = 18 -> "HDMI-2"
      [] code = 19 -> "HDMI-3"
      [] code = 3 -> "DVI-1"
      [] code = 4 -> "DVI-2"
      [] code = 1 -> "VGA"
      [] OTHER -> "Input-0x" \o Hex2(code)

\* the input table the macOS input detection iterates over
M1DDCInputSources ==
    { <<"DisplayPort", 15>>, <<"DP", 15>>, <<"DP-1", 15>>, <<"DP-2", 16>>,
      <<"HDMI", 17>>, <<"HDMI-1", 17>>, <<"HDMI-2", 18>>, <<"USB-C", 27>>,
      <<"Thunderbolt", 27>> }

(* ------------------------------------------------------------------ *)
(* The parsers of the helpers' output                                   *)
(* ------------------------------------------------------------------ *)

\* regexp `Display (\d+)`
DisplayPattern == <<Lit("Display "), CapturedNumber>>

\* extractField
extractField(line, fieldName) ==
    LET parts == Split(line, fieldName)
    IN  IF Len(parts) < 2 THEN "" ELSE TrimSpace(parts[2])

\* the Monitor parseDdcutilDetectOutput starts at a "Display N" header
ddcutilHeaderMonitor(id) ==
    [ID |-> id, Name |-> "", Inputs |-> {}, CurrentInput |-> ""]

\* the loop of parseDdcutilDetectOutput over the lines; current is
\* currentMonitor: << >> for nil, else the Monitor it points to
RECURSIVE ddcutilDetectLines(_, _, _)
ddcutilDetectLines(lines, monitors, current) ==
    IF lines = << >>
    THEN IF current # << >> THEN Append(monitors, current[1]) ELSE monitors
    ELSE LET line == TrimSpace(Head(lines))
             header == HasPrefix(line, "Display ")
             flushed == IF header /\ current # << >>
                        THEN Append(monitors, current[1]) ELSE monitors
             matches == FindStringSubmatch(DisplayPattern, line)
             started == IF header /\ matches.ok
                        THEN <<ddcutilHeaderMonitor(matches.capture)>>
                        ELSE current
             mfg == extractField(line, "Mfg id:")
             named == IF Contains(line, "Mfg id:") /\ started # << >> /\ mfg # ""
                      THEN <<[started[1] EXCEPT !.Name = mfg]>>
                      ELSE started
             model == extractField(line, "Model:")
             modelled == IF /\ Contains(line, "Model:")
                            /\ named # << >>
                            /\ model # ""
                            /\ named[1].Name # ""
                         THEN <<[named[1] EXCEPT !.Name = @ \o " " \o model]>>
                         ELSE named
         IN  ddcutilDetectLines(Tail(lines), flushed, modelled)

\* parseDdcutilDetectOutput up to the enhancement loop
parseDdcutilDetectOutput(output) ==
    ddcutilDetectLines(Split(output, "\n"), << >>, << >>)

\* xrandrMonitor with the connection also taken for the active input
xrandrMonitor_ConnectionAsInput(id, connectionName) ==
    [ID |-> id, Name |-> connectionName, Inputs |-> {},
     CurrentInput |-> connectionName]

\* the Monitor parseXrandrOutput builds for a listed connection
xrandrMonitor(id, connectionName) ==
    [ID |-> id, Name |-> connectionName, Inputs |-> {}, CurrentInput |-> ""]

\* the loop of parseXrandrOutput over the lines
RECURSIVE xrandrLines(_, _)
xrandrLines(lines, monitors) ==
    IF lines = << >> THEN monitors
    ELSE LET line == Head(lines)
             parts == Fields(line)
         IN  IF /\ Contains(line, ":")
                /\ ~HasPrefix(line, "Monitors:")
                /\ Len(parts) >= 3
             THEN xrandrLines(Tail(lines),
                              Append(monitors,
                                     xrandrMonitor(ToString(Len(monitors) + 1),
                                                   parts[Len(parts)])))
             ELSE xrandrLines(Tail(lines), monitors)

parseXrandrOutput(output) == xrandrLines(Split(output, "\n"), << >>)

\* the loop of parseLinuxInputSources over the lines; the map is a set of
\* <<name, code>> pairs
RECURSIVE inputSourceLines(_, _)
inputSourceLines(lines, inInputSection) ==
    IF lines = << >> THEN {}
    ELSE LET line == TrimSpace(Head(lines))
         IN  IF Contains(line, "Feature: 60 (Input Source)")
             THEN inputSourceLines(Tail(lines), TRUE)
             ELSE IF inInputSection /\ HasPrefix(line, "Values:")
             THEN LET values == Fields(TrimPrefix(line, "Values: "))
                      codes == {ParseUint8Hex(values[k]).n :
                                   k \in {j \in DOMAIN values :
                                              ParseUint8Hex(values[j]).ok}}
                  IN  {<<linuxInputCodeToName(code), code>> : code \in codes}
             ELSE IF inInputSection /\ HasPrefix(line, "Feature:")
             THEN {}
             ELSE inputSourceLines(Tail(lines), inInputSection)

parseLinuxInputSources(capabilities) ==
    inputSourceLines(Split(capabilities, "\n"), FALSE)

\* regexp `<label>\s*=\s*(\d+)`
Assigned(label) == <<Lit(label), Spaces(0), Lit("="), Spaces(0), CapturedNumber>>

\* regexp `<label>:\s*(\d+)`
Labelled(label) == <<Lit(label \o ":"), Spaces(0), CapturedNumber>>

\* DdcctlPatterns with the bare number tried before the labelled patterns
DdcctlPatterns_BareNumberFirst ==
    << <<CapturedNumber>>,
       <<Lit("control"), Spaces(1), Lit("#"), Number, Spaces(1), Lit("="),
         Spaces(1), CapturedNumber>>,
       Assigned("brightness"),
       Assigned("contrast"),
       Assigned("volume"),
       Assigned("input") >>

\* the patterns parseVCPValue tries for ddcctl, in order
DdcctlPatterns ==
    << <<Lit("control"), Spaces(1), Lit("#"), Number, Spaces(1), Lit("="),
         Spaces(1), CapturedNumber>>,
       Assigned("brightness"),
       Assigned("contrast"),
       Assigned("volume"),
       Assigned("input"),
       <<CapturedNumber>> >>

\* the patterns parseVCPValue tries for m1ddc, in order
M1ddcPatterns ==
    << Labelled("luminance"),
       Labelled("contrast"),
       Labelled("volume"),
       Labelled("input"),
       <<TextStart, Spaces(0), CapturedNumber, Spaces(0), TextEnd>> >>

ValuePatterns(t) ==
    CASE t = "ddcctl" -> DdcctlPatterns
      [] t = "m1ddc" -> M1ddcPatterns
      [] OTHER -> << >>

\* parseVCPValue: the first pattern that matches gives the value, as uint16
parseVCPValue(output, t) ==
    LET text == TrimSpace(output)
        patterns == ValuePatterns(t)
        matching == {k \in DOMAIN patterns :
                        /\ FindStringSubmatch(patterns[k], text).ok
                        /\ Atoi(FindStringSubmatch(patterns[k], text).capture).ok}
    IN  IF matching = {}
        THEN [value |-> 0,
              err |-> "could not parse value from output: '" \o text \o "'"]
        ELSE [value |->
                Atoi(FindStringSubmatch(patterns[Least(matching)], text).capture).n
                    % Uint16Mod,
              err |-> ""]

(* ------------------------------------------------------------------ *)
(* State                                                                *)
(* ------------------------------------------------------------------ *)
VARIABLES
    osType,        \* DDCClientImpl.osType
    installed,     \* the helper binaries that resolve in the executable search path
    brightness,    \* the displays' live brightness, by display number
    pc,            \* position of the running call
    entry,         \* the method that was called
    args,          \* its arguments
    tool,          \* the scanner's result (local variable tool / availableTool)
    ran,           \* the helper processes started, in order, with their outcome
    validated,     \* display numbers passed to enhancedDisplayWithValidation
    baseDisplays,  \* detectMacOSMonitors: the inventory's monitors
    monitors,      \* the monitor list under construction
    displayNum,    \* enhancedDisplayWithValidation: the display under validation
    enhanced,      \* enhancedDisplayWithValidation: the monitor being enhanced
    validation,    \* the DDCValidationResult of validateDDCSupport
    original,      \* testWriteBrightness: originalBrightness
    testValue,     \* testWriteBrightness: testValue
    newBrightness, \* testWriteBrightness: newBrightness
    ret            \* the call's results

vars == <<osType, installed, brightness, pc, entry, args, tool, ran, validated,
          baseDisplays, monitors, displayNum, enhanced, validation, original,
          testValue, newBrightness, ret>>

envVars == <<osType, installed>>
loopVars == <<baseDisplays, monitors, displayNum, enhanced, validated>>
probeVars == <<original, testValue, newBrightness>>

Unset == "unset"

NoRet == [err |-> "", monitors |-> << >>, value |-> 0]

Init ==
    /\ osType \in OSTypes
    /\ installed \in SUBSET DDCTools
    /\ brightness \in {[d \in 1..MaxDisplays |-> l] : l \in Levels}
    /\ pc = "start"
    /\ entry = "none"
    /\ args = NoArgs
    /\ tool = Unset
    /\ ran = << >>
    /\ validated = << >>
    /\ baseDisplays = << >>
    /\ monitors = << >>
    /\ displayNum = 0
    /\ enhanced = NoMonitor
    /\ validation = NoValidation
    /\ original = 0
    /\ testValue = 0
    /\ newBrightness = 0
    /\ ret = NoRet

\* how an external process can end: a binary that does not resolve fails at
\* start; a process under a context deadline is killed when the deadline
\* expires; one without a deadline may never exit
ExecOutcomes(bin, deadline) ==
    IF bin \in DDCTools /\ ~Resolves(bin, installed) THEN {"notfound"}
    ELSE {"ok", "fail"} \cup (IF deadline > 0 THEN {"timeout"} ELSE {"hang"})

\* a helper whose output is read may also exit 0 with output the parser
\* of the caller rejects
ReadOutcomes(bin, deadline) ==
    IF bin \in DDCTools /\ ~Resolves(bin, installed) THEN {"notfound"}
    ELSE ExecOutcomes(bin, deadline) \cup {"unparsable"}

\* a write helper may also exit 0 without the display changing anything
WriteOutcomes(bin, deadline) ==
    IF bin \in DDCTools /\ ~Resolves(bin, installed) THEN {"notfound"}
    ELSE {"ok", "ignored", "fail"} \cup (IF deadline > 0 THEN {"timeout"} ELSE {"hang"})

Started(cmd, deadline, outcome) ==
    [bin |-> cmd.bin, argv |-> cmd.argv, deadline |-> deadline, outcome |-> outcome,
     output |-> ""]

\* a helper that was started and printed output before it ended
Printed(cmd, deadline, outcome, output) ==
    [Started(cmd, deadline, outcome) EXCEPT !.output = output]

\* cmd.Run() / cmd.Output() returned err == nil
ExitedOK(outcome) == outcome \in {"ok", "ignored"}

Return(r) ==
    /\ pc' = "done"
    /\ ret' = r

\* a method call on the nil *exec.Cmd: runtime panic, the process dies
Panic ==
    /\ pc' = "panic"
    /\ ret' = [err |-> "panic: nil pointer dereference", monitors |-> << >>, value |-> 0]

\* cmd.Run() / cmd.Output() never returns
Hang ==
    /\ pc' = "hung"
    /\ UNCHANGED ret


(* ------------------------------------------------------------------ *)
(* macOS: validation round trip                                         *)
(* ------------------------------------------------------------------ *)

InputValues == {0, 17}

\* the DDCValidationResult validateDDCSupport returns when the first read fails
validationReadFailed ==
    [ToolAvailable |-> TRUE, CanReadValues |-> FALSE, CanWriteValues |-> FALSE,
     ValidationError |-> "Cannot read brightness",
     RecommendedAction |-> "Monitor may not support DDC/CI or connection issue"]

\* validationAfterWrite with the test of testWriteBrightness's result inverted
validationAfterWrite_Inverted(writeOK) ==
    IF writeOK
    THEN [ToolAvailable |-> TRUE, CanReadValues |-> TRUE, CanWriteValues |-> FALSE,
          ValidationError |-> "DDC commands execute but have no effect",
          RecommendedAction |->
              "VGA/older connections often don't support DDC control. Try HDMI/DisplayPort"]
    ELSE [ToolAvailable |-> TRUE, CanReadValues |-> TRUE, CanWriteValues |-> TRUE,
          ValidationError |-> "", RecommendedAction |-> ""]

\* the DDCValidationResult after testWriteBrightness returned writeOK
validationAfterWrite(writeOK) ==
    IF ~writeOK
    THEN [ToolAvailable |-> TRUE, CanReadValues |-> TRUE, CanWriteValues |-> FALSE,
          ValidationError |-> "DDC commands execute but have no effect",
          RecommendedAction |->
              "VGA/older connections often don't support DDC control. Try HDMI/DisplayPort"]
    ELSE [ToolAvailable |-> TRUE, CanReadValues |-> TRUE, CanWriteValues |-> TRUE,
          ValidationError |-> "", RecommendedAction |-> ""]

\* the result while validateDDCSupport is between the read and the write test
validationReadOK ==
    [ToolAvailable |-> TRUE, CanReadValues |-> TRUE, CanWriteValues |-> FALSE,
     ValidationError |-> "", RecommendedAction |-> ""]

\* enhancedDisplayWithValidation(base, d, tool) with tool # "": up to the
\* first helper invocation of validateDDCSupport
StartValidation(base, d) ==
    /\ displayNum' = d
    /\ enhanced' = base
    /\ validated' = Append(validated, d)
    /\ pc' = "testReadBrightness"

\* enhancedDisplayWithValidation returns e: to the loop of detectMacOSMonitors,
\* which goes on with the next display, or to the caller
FinishEnhanced(e) ==
    IF entry = "DetectMonitors" /\ displayNum < Len(baseDisplays)
    THEN /\ monitors' = Append(monitors, e)
         /\ StartValidation(baseDisplays[displayNum + 1], displayNum + 1)
         /\ UNCHANGED ret
    ELSE /\ monitors' = Append(monitors, e)
         /\ Return([err |-> "", monitors |-> Append(monitors, e), value |-> 0])
         /\ UNCHANGED <<displayNum, enhanced, validated>>

\* detectMacOSMonitors: the inventory, then the validation loop
detectMacOSMonitors ==
    \E outcome \in ReadOutcomes("system_profiler", NoDeadline), inv \in Inventories :
        /\ (outcome = "ok" \/ inv = << >>)
        /\ LET cmd == [bin |-> "system_profiler",
                       argv |-> <<"SPDisplaysDataType", "-json">>]
               r == getSystemProfilerDisplays(outcome, inv)
               t == detectAvailableDDCTool(installed)
           IN  /\ ran' = Append(ran, Started(cmd, NoDeadline, outcome))
               /\ baseDisplays' = r.monitors
               /\ UNCHANGED <<validation, probeVars, brightness>>
               /\ IF outcome = "hang"
                  THEN /\ Hang
                       /\ UNCHANGED <<tool, monitors, displayNum, enhanced, validated>>
                  ELSE IF r.err = ""
                  THEN /\ Return([err |-> "", monitors |-> r.monitors, value |-> 0])
                       /\ UNCHANGED <<tool, monitors, displayNum, enhanced, validated>>
                  ELSE IF Len(r.monitors) = 0
                  THEN /\ Return([err |-> "", monitors |-> << >>, value |-> 0])
                       /\ UNCHANGED <<tool, monitors, displayNum, enhanced, validated>>
                  ELSE /\ tool' = t
                       /\ IF t = ""
                          THEN /\ monitors' = r.monitors
                               /\ validated' = [k \in 1..Len(r.monitors) |-> k]
                               /\ Return([err |-> "", monitors |-> r.monitors, value |-> 0])
                               /\ UNCHANGED <<displayNum, enhanced>>
                          ELSE /\ monitors' = << >>
                               /\ StartValidation(r.monitors[1], 1)
                               /\ UNCHANGED ret

\* enhancedDisplayWithValidation called on one display, with the tool the
\* scanner reports
EnhancedDisplayWithValidation ==
    /\ pc = "start"
    /\ osType = OSMacOS
    /\ entry' = "enhancedDisplayWithValidation"
    /\ \E ndrv \in {e \in InventoryEntries : e.ConnectionType # "spdisplays_internal"},
          d \in 1..MaxDisplays :
          /\ tool' = detectAvailableDDCTool(installed)
          /\ IF tool' = ""
             THEN /\ displayNum' = d
                  /\ enhanced' = inventoryMonitor(ndrv)
                  /\ validated' = Append(validated, d)
                  /\ monitors' = <<inventoryMonitor(ndrv)>>
                  /\ Return([err |-> "", monitors |-> <<inventoryMonitor(ndrv)>>,
                             value |-> 0])
             ELSE /\ StartValidation(inventoryMonitor(ndrv), d)
                  /\ UNCHANGED <<monitors, ret>>
    /\ UNCHANGED <<envVars, brightness, args, ran, baseDisplays, validation, probeVars>>

\* validateDDCSupport: testReadBrightness, and what follows its result
TestReadBrightness ==
    /\ pc = "testReadBrightness"
    /\ LET cmd == readBrightnessCommand(tool, displayNum)
       IN  IF cmd.kind = "nil"
           THEN /\ Panic
                /\ UNCHANGED <<ran, validation, probeVars, loopVars>>
           ELSE \E outcome \in ReadOutcomes(cmd.bin, BrightnessDeadline) :
                    /\ ran' = Append(ran, Started(cmd, BrightnessDeadline, outcome))
                    /\ IF outcome = "ok"
                       THEN /\ original' = brightness[displayNum]
                            /\ testValue' = probeValue(brightness[displayNum])
                            /\ validation' = validationReadOK
                            /\ pc' = "probeWrite"
                            /\ UNCHANGED <<newBrightness, loopVars, ret>>
                       ELSE /\ validation' = validationReadFailed
                            /\ FinishEnhanced(enhanced)
                            /\ UNCHANGED <<baseDisplays, probeVars>>
    /\ UNCHANGED <<envVars, brightness, entry, args, tool>>

\* the display's brightness after a set-brightness helper ended
brightnessAfter(outcome, d, value) ==
    IF outcome = "ok" THEN [brightness EXCEPT ![d] = value] ELSE brightness

\* testWriteBrightness: the probe write
ProbeWrite ==
    /\ pc = "probeWrite"
    /\ LET cmd == setBrightnessCommand(tool, displayNum, testValue)
       IN  \E outcome \in WriteOutcomes(cmd.bin, BrightnessDeadline) :
            /\ ran' = Append(ran, Started(cmd, BrightnessDeadline, outcome))
            /\ brightness' = brightnessAfter(outcome, displayNum, testValue)
            /\ IF ExitedOK(outcome)
               THEN /\ pc' = "reRead"
                    /\ UNCHANGED validation
               ELSE /\ validation' = validationAfterWrite(FALSE)
                    /\ pc' = "addReadOnlyInfo"
    /\ UNCHANGED <<envVars, entry, args, tool, loopVars, probeVars, ret>>

\* testWriteBrightness: the read after the settle delay
ReRead ==
    /\ pc = "reRead"
    /\ LET cmd == readBrightnessCommand(tool, displayNum)
       IN  \E outcome \in ReadOutcomes(cmd.bin, BrightnessDeadline) :
            /\ ran' = Append(ran, Started(cmd, BrightnessDeadline, outcome))
            /\ IF outcome = "ok"
               THEN /\ newBrightness' = brightness[displayNum]
                    /\ pc' = "restore"
                    /\ UNCHANGED validation
               ELSE /\ validation' = validationAfterWrite(FALSE)
                    /\ pc' = "addReadOnlyInfo"
                    /\ UNCHANGED newBrightness
    /\ UNCHANGED <<envVars, brightness, entry, args, tool, loopVars, original,
                   testValue, ret>>

\* testWriteBrightness: the restoring write, its error ignored, and the verdict
Restore ==
    /\ pc = "restore"
    /\ LET cmd == setBrightnessCommand(tool, displayNum, original)
       IN  \E outcome \in WriteOutcomes(cmd.bin, BrightnessDeadline) :
            /\ ran' = Append(ran, Started(cmd, BrightnessDeadline, outcome))
            /\ brightness' = brightnessAfter(outcome, displayNum, original)
            /\ validation' = validationAfterWrite(newBrightness = testValue)
            /\ pc' = IF newBrightness = testValue
                     THEN "addFullDDCInfo" ELSE "addReadOnlyInfo"
    /\ UNCHANGED <<envVars, entry, args, tool, loopVars, probeVars, ret>>

\* getCurrentInputSafe's result as the CurrentInput text (suffix appended)
currentInputText(outcome, value, suffix) ==
    IF outcome = "ok" /\ value # 0
    THEN ToString(value) \o suffix
    ELSE enhanced.CurrentInput

\* addReadOnlyInfo
AddReadOnlyInfo ==
    /\ pc = "addReadOnlyInfo"
    /\ LET cmd == currentInputCommand(tool, displayNum)
       IN  \E outcome \in ReadOutcomes(cmd.bin, CurrentInputDeadline),
              v \in InputValues :
            /\ (outcome = "ok" \/ v = 0)
            /\ ran' = Append(ran, Started(cmd, CurrentInputDeadline, outcome))
            /\ FinishEnhanced(
                 [enhanced EXCEPT
                    !.CurrentInput =
                        currentInputText(outcome, v, " (read-only)"),
                    !.Inputs = {}])
    /\ UNCHANGED <<envVars, brightness, entry, args, tool, baseDisplays, validation,
                   probeVars>>

\* addFullDDCInfo: the current input
AddFullDDCInfo ==
    /\ pc = "addFullDDCInfo"
    /\ LET cmd == currentInputCommand(tool, displayNum)
       IN  \E outcome \in ReadOutcomes(cmd.bin, CurrentInputDeadline),
              v \in InputValues :
            /\ (outcome = "ok" \/ v = 0)
            /\ ran' = Append(ran, Started(cmd, CurrentInputDeadline, outcome))
            /\ enhanced' =
                 [enhanced EXCEPT
                    !.CurrentInput =
                        currentInputText(outcome, v, "")]
            /\ pc' = "detectAvailableInputs"
    /\ UNCHANGED <<envVars, brightness, entry, args, tool, baseDisplays, monitors,
                   displayNum, validated, validation, probeVars, ret>>


\* which of the set-input helper invocations of one detectAvailableInputs run
\* exit 0: none, all, or two of them
InputTestProfiles ==
    { {}, {e[1] : e \in M1DDCInputSources}, {"HDMI-1", "USB-C"} }

\* the command of testInputAvailable
testInputCommand(t, d, inputCode) ==
    CASE t = "ddcctl" ->
           [kind |-> "cmd", bin |-> "ddcctl",
            argv |-> <<"-d", ToString(d), "-i", ToString(inputCode)>>, err |-> ""]
      [] t = "m1ddc" ->
           [kind |-> "cmd", bin |-> "m1ddc",
            argv |-> <<"display", ToString(d), "set", "input", ToString(inputCode)>>,
            err |-> ""]
      [] OTHER -> NoCmd

\* the table in the order one run of detectAvailableInputs visits it (Go
\* leaves the order of a map iteration open; the model logs source order)
M1DDCInputOrder ==
    << <<"DisplayPort", 15>>, <<"DP", 15>>, <<"DP-1", 15>>, <<"DP-2", 16>>,
       <<"HDMI", 17>>, <<"HDMI-1", 17>>, <<"HDMI-2", 18>>, <<"USB-C", 27>>,
       <<"Thunderbolt", 27>> >>

\* addFullDDCInfo: detectAvailableInputs, one testInputAvailable per table entry
DetectAvailableInputs ==
    /\ pc = "detectAvailableInputs"
    /\ \E okNames \in InputTestProfiles :
        /\ ran' = ran \o
                  [k \in 1..Len(M1DDCInputOrder) |->
                     Started(testInputCommand(tool, displayNum, M1DDCInputOrder[k][2]),
                             InputTestDeadline,
                             IF M1DDCInputOrder[k][1] \in okNames THEN "ok" ELSE "fail")]
        /\ FinishEnhanced(
             [enhanced EXCEPT
                !.Inputs = {e \in M1DDCInputSources : e[1] \in okNames}])
    /\ UNCHANGED <<envVars, brightness, entry, args, tool, baseDisplays, validation,
                   probeVars>>

\* a logged helper invocation that is one of testInputAvailable's set-input
\* commands
IsSetInput(r) ==
    /\ Len(r.argv) = 4
    /\ \/ r.bin = "ddcctl" /\ r.argv[3] = "-i"
       \/ r.bin = "m1ddc" /\ r.argv[3] = "set" /\ r.argv[4] = "input"

\* the input source a display shows after the helper invocations of log, when
\* it showed `before`: every set-input command that exited 0 switched it
RECURSIVE activeInputAfter(_, _)
activeInputAfter(before, log) ==
    IF log = << >> THEN before
    ELSE LET r == log[Len(log)]
         IN  IF IsSetInput(r) /\ r.outcome = "ok"
             THEN Atoi(r.argv[4]).n
             ELSE activeInputAfter(before, SubSeq(log, 1, Len(log) - 1))

(* ------------------------------------------------------------------ *)
(* SetVCP / GetVCP                                                      *)
(* ------------------------------------------------------------------ *)

setMacOSVCP(monitorID, code, value) ==
    LET a == Atoi(monitorID)
        t == detectAvailableDDCTool(installed)
        cmd == setMacOSVCPCommand(t, code, a.n, value)
    IN  IF ~a.ok
        THEN /\ Return([err |-> "invalid monitor ID", monitors |-> << >>, value |-> 0])
             /\ UNCHANGED <<tool, ran, brightness>>
        ELSE /\ tool' = t
             /\ IF t = ""
                THEN /\ Return([err |-> "no DDC tools available", monitors |-> << >>,
                                value |-> 0])
                     /\ UNCHANGED <<ran, brightness>>
                ELSE IF cmd.kind = "err"
                THEN /\ Return([err |-> cmd.err, monitors |-> << >>, value |-> 0])
                     /\ UNCHANGED <<ran, brightness>>
                ELSE IF cmd.kind = "nil"
                THEN /\ Panic
                     /\ UNCHANGED <<ran, brightness>>
                ELSE \E outcome \in WriteOutcomes(cmd.bin, SetVCPDeadline) :
                       /\ ran' = Append(ran, Started(cmd, SetVCPDeadline, outcome))
                       /\ brightness' =
                            IF code = 16 THEN brightnessAfter(outcome, a.n, value)
                            ELSE brightness
                       /\ Return([err |-> IF ExitedOK(outcome) THEN ""
                                          ELSE "failed to set VCP",
                                  monitors |-> << >>, value |-> 0])

setLinuxVCP(monitorID, code, value) ==
    LET cmd == [bin |-> "ddcutil",
                argv |-> <<"--display", monitorID, "setvcp", ToString(code),
                           ToString(value)>>]
    IN  \E outcome \in WriteOutcomes(cmd.bin, NoDeadline) :
          /\ ran' = Append(ran, Started(cmd, NoDeadline, outcome))
          /\ IF outcome = "hang"
             THEN Hang
             ELSE Return([err |-> IF ExitedOK(outcome) THEN "" ELSE "exit status",
                          monitors |-> << >>, value |-> 0])
          /\ UNCHANGED <<tool, brightness>>

SetVCP ==
    /\ pc = "start"
    /\ entry' = "SetVCP"
    /\ \E monitorID \in MonitorIDs, code \in VCPCodes, value \in VCPValues :
        /\ args' = [monitorID |-> monitorID, code |-> code, value |-> value]
        /\ CASE osType = OSLinux -> setLinuxVCP(monitorID, code, value)
             [] osType = OSMacOS -> setMacOSVCP(monitorID, code, value)
             [] osType = OSWindows ->
                  /\ Return([err |-> "Windows VCP setting not implemented yet",
                             monitors |-> << >>, value |-> 0])
                  /\ UNCHANGED <<tool, ran, brightness>>
             [] OTHER ->
                  /\ Return([err |-> "unsupported OS", monitors |-> << >>, value |-> 0])
                  /\ UNCHANGED <<tool, ran, brightness>>
    /\ UNCHANGED <<envVars, loopVars, validation, probeVars>>

\* what a read of feature code on display d yields when the helper answers
FeatureValues(code, d) ==
    IF code = 16 /\ d \in DOMAIN brightness THEN {brightness[d]} ELSE VCPValues

getMacOSVCP(monitorID, code) ==
    LET a == Atoi(monitorID)
        t == detectAvailableDDCTool(installed)
        cmd == getMacOSVCPCommand(t, code, a.n)
    IN  IF ~a.ok
        THEN /\ Return([err |-> "invalid monitor ID", monitors |-> << >>, value |-> 0])
             /\ UNCHANGED <<tool, ran>>
        ELSE /\ tool' = t
             /\ IF t = ""
                THEN /\ Return([err |-> "no DDC tools available", monitors |-> << >>,
                                value |-> 0])
                     /\ UNCHANGED ran
                ELSE IF cmd.kind = "err"
                THEN /\ Return([err |-> cmd.err, monitors |-> << >>, value |-> 0])
                     /\ UNCHANGED ran
                ELSE IF cmd.kind = "nil"
                THEN /\ Panic
                     /\ UNCHANGED ran
                ELSE \E outcome \in ReadOutcomes(cmd.bin, GetVCPDeadline) :
                     \E v \in (IF outcome = "ok" THEN FeatureValues(code, a.n) ELSE {0}) :
                       /\ ran' = Append(ran, Started(cmd, GetVCPDeadline, outcome))
                       /\ Return(
                            IF outcome \notin {"ok", "unparsable"}
                            THEN [err |-> "failed to get VCP", monitors |-> << >>,
                                  value |-> 0]
                            ELSE IF outcome = "unparsable"
                            THEN [err |-> "failed to parse VCP value",
                                  monitors |-> << >>, value |-> 0]
                            ELSE [err |-> "", monitors |-> << >>,
                                  value |-> v % Uint16Mod])

GetVCP ==
    /\ pc = "start"
    /\ entry' = "GetVCP"
    /\ \E monitorID \in MonitorIDs, code \in VCPCodes :
        /\ args' = [monitorID |-> monitorID, code |-> code, value |-> 0]
        /\ CASE osType = OSLinux ->
                  /\ Return([err |-> "not implemented", monitors |-> << >>, value |-> 0])
                  /\ UNCHANGED <<tool, ran>>
             [] osType = OSMacOS -> getMacOSVCP(monitorID, code)
             [] osType = OSWindows ->
                  /\ Return([err |-> "Windows VCP getting not implemented yet",
                             monitors |-> << >>, value |-> 0])
                  /\ UNCHANGED <<tool, ran>>
             [] OTHER ->
                  /\ Return([err |-> "unsupported OS", monitors |-> << >>, value |-> 0])
                  /\ UNCHANGED <<tool, ran>>
    /\ UNCHANGED <<envVars, brightness, loopVars, validation, probeVars>>


(* ------------------------------------------------------------------ *)
(* GetCapabilities                                                      *)
(* ------------------------------------------------------------------ *)

\* getLinuxCapabilities / getMacOSCapabilities: an empty Capabilities, no error
emptyCapabilities == [err |-> "", monitors |-> << >>, value |-> 0]

\* getWindowsCapabilities
getWindowsCapabilities ==
    [err |-> "Windows capabilities not implemented yet", monitors |-> << >>, value |-> 0]

\* a facade whose default branch falls into the Linux back end
getCapabilities_LinuxByDefault(os) ==
    CASE os = OSMacOS -> emptyCapabilities
      [] os = OSWindows -> getWindowsCapabilities
      [] OTHER -> emptyCapabilities

\* the switch of GetCapabilities: what it returns on each OSType
getCapabilities(os) ==
    CASE os = OSLinux -> emptyCapabilities
      [] os = OSMacOS -> emptyCapabilities
      [] os = OSWindows -> getWindowsCapabilities
      [] OTHER -> [err |-> "unsupported OS", monitors |-> << >>, value |-> 0]

GetCapabilities ==
    /\ pc = "start"
    /\ entry' = "GetCapabilities"
    /\ \E monitorID \in MonitorIDs :
        /\ args' = [monitorID |-> monitorID, code |-> 0, value |-> 0]
        /\ Return(getCapabilities(osType))
    /\ UNCHANGED <<envVars, tool, ran, brightness, loopVars, validation, probeVars>>

(* ------------------------------------------------------------------ *)
(* Linux: detection                                                     *)
(* ------------------------------------------------------------------ *)

\* the "Mfg id:" / "Model:" fields of the blocks of a ddcutil detect transcript
DdcutilBlockKinds ==
    { [mfg |-> "DEL", model |-> "U2720Q"], [mfg |-> "", model |-> "U2720Q"] }

\* what ddcutil capabilities prints: without and with the input source feature
CapabilityOutputs ==
    { "Model: U2720Q\nVCP Features:\n   Feature: 10 (Brightness)\n",
      "Model: U2720Q\nVCP Features:\n   Feature: 60 (Input Source)\n"
          \o "      Values: 0F 11 C8\n   Feature: 62 (Audio speaker volume)\n" }

\* the "current value = N" numbers of a getvcp 60 output
CurrentValues == {273}

\* the connector names of an xrandr --listmonitors output
Connectors == {"HDMI-1", "DP-1"}

RECURSIVE Concat(_)
Concat(texts) ==
    IF texts = << >> THEN "" ELSE Head(texts) \o Concat(Tail(texts))

\* the block ddcutil detect prints for display k
ddcutilBlockText(k, block) ==
    "Display " \o ToString(k) \o "\n"
    \o "   I2C bus:  /dev/i2c-" \o ToString(k) \o "\n"
    \o (IF block.mfg # "" THEN "   Mfg id:               " \o block.mfg \o "\n"
        ELSE "")
    \o "   Model:                " \o block.model \o "\n"

\* the transcript ddcutil detect prints for these displays
ddcutilTranscript(blocks) ==
    Concat([k \in 1..Len(blocks) |-> ddcutilBlockText(k, blocks[k])])

\* what xrandr --listmonitors prints for these connected outputs
xrandrListing(connectors) ==
    "Monitors: " \o ToString(Len(connectors))
    \o Concat([k \in 1..Len(connectors) |->
                 "\n " \o ToString(k - 1) \o ": +" \o connectors[k]
                 \o " 1920x1080+0+0  " \o connectors[k]])

\* detectWithCoreSystem: xrandr, the last resort
DetectWithCoreSystem ==
    /\ pc = "detectWithCoreSystem"
    /\ \E outcome \in ExecOutcomes("xrandr", NoDeadline),
          connectors \in SeqsUpTo(Connectors, MaxDisplays) :
        /\ (outcome = "ok" \/ connectors = << >>)
        /\ ran' = Append(ran, Printed([bin |-> "xrandr", argv |-> <<"--listmonitors">>],
                                      NoDeadline, outcome,
                                      IF outcome = "ok" THEN xrandrListing(connectors)
                                      ELSE ""))
        /\ IF outcome = "hang"
           THEN /\ Hang
                /\ UNCHANGED monitors
           ELSE IF outcome = "ok"
                   /\ Len(parseXrandrOutput(xrandrListing(connectors))) > 0
           THEN /\ monitors' = parseXrandrOutput(xrandrListing(connectors))
                /\ Return([err |-> "",
                           monitors |-> parseXrandrOutput(xrandrListing(connectors)),
                           value |-> 0])
           ELSE /\ monitors' = << >>
                /\ Return([err |-> "no monitors detected with core system methods",
                           monitors |-> << >>, value |-> 0])
    /\ UNCHANGED <<envVars, brightness, entry, args, tool, baseDisplays, displayNum,
                   enhanced, validated, validation, probeVars>>

\* AfterDdcutil without the fall-through to the core system
AfterDdcutil_NoFallThrough(caller, ms) ==
    Return([err |-> "", monitors |-> ms, value |-> 0])

\* detectWithDdcutil returned ms to caller: detectWithCLITools and
\* detectLinuxMonitors fall through to the core system when the list is empty
AfterDdcutil(caller, ms) ==
    IF caller = "DetectMonitors" /\ Len(ms) = 0
    THEN /\ pc' = "detectWithCoreSystem"
         /\ UNCHANGED ret
    ELSE Return([err |-> "", monitors |-> ms, value |-> 0])

\* detectWithDdcutil: run ddcutil detect and parse the transcript, up to the
\* first capabilities query
detectWithDdcutil(caller) ==
    \E outcome \in ExecOutcomes("ddcutil", NoDeadline),
       blocks \in SeqsUpTo(DdcutilBlockKinds, MaxDisplays) :
        /\ (outcome = "ok" \/ blocks = << >>)
        /\ ran' = Append(ran, Printed([bin |-> "ddcutil", argv |-> <<"detect">>],
                                      NoDeadline, outcome,
                                      IF outcome = "ok" THEN ddcutilTranscript(blocks)
                                      ELSE ""))
        /\ IF outcome = "hang"
           THEN /\ Hang
                /\ UNCHANGED <<monitors, displayNum>>
           ELSE IF outcome = "ok"
                   /\ Len(parseDdcutilDetectOutput(ddcutilTranscript(blocks))) > 0
           THEN /\ monitors' = parseDdcutilDetectOutput(ddcutilTranscript(blocks))
                /\ displayNum' = 1
                /\ pc' = "enhanceLinuxMonitor"
                /\ UNCHANGED ret
           ELSE /\ monitors' = << >>
                /\ AfterDdcutil(caller, << >>)
                /\ UNCHANGED displayNum

\* detectLinuxMonitors: detectWithCLITools up to its first helper invocation
detectLinuxMonitors ==
    LET t == detectAvailableDDCToolsLinux(installed)
    IN  /\ tool' = t
        /\ UNCHANGED <<baseDisplays, enhanced, validated, validation, probeVars,
                       brightness>>
        /\ IF t = "ddcutil"
           THEN detectWithDdcutil("DetectMonitors")
           ELSE /\ pc' = "detectWithCoreSystem"
                /\ UNCHANGED <<ran, monitors, displayNum, ret>>

\* detectWithDdcutil called by itself
DetectWithDdcutil ==
    /\ pc = "start"
    /\ osType = OSLinux
    /\ entry' = "detectWithDdcutil"
    /\ detectWithDdcutil("detectWithDdcutil")
    /\ UNCHANGED <<envVars, brightness, args, tool, baseDisplays, enhanced, validated,
                   validation, probeVars>>

\* the enhancement loop goes on with the next monitor, or the list is returned
NextLinuxMonitor(ms) ==
    /\ monitors' = ms
    /\ IF displayNum < Len(ms)
       THEN /\ displayNum' = displayNum + 1
            /\ pc' = "enhanceLinuxMonitor"
            /\ UNCHANGED ret
       ELSE /\ AfterDdcutil(entry, ms)
            /\ UNCHANGED displayNum

\* enhanceLinuxMonitorWithCapabilities: the capabilities query
EnhanceLinuxMonitor ==
    /\ pc = "enhanceLinuxMonitor"
    /\ \E outcome \in ExecOutcomes("ddcutil", NoDeadline),
          capabilities \in CapabilityOutputs :
        /\ (outcome = "ok" \/ ~Contains(capabilities, "Values:"))
        /\ ran' = Append(ran,
                    Printed([bin |-> "ddcutil",
                             argv |-> <<"--display", monitors[displayNum].ID,
                                        "capabilities">>],
                            NoDeadline, outcome,
                            IF outcome = "ok" THEN capabilities ELSE ""))
        /\ IF outcome = "hang"
           THEN /\ Hang
                /\ UNCHANGED <<monitors, displayNum>>
           ELSE IF outcome = "ok"
           THEN /\ monitors' = [monitors EXCEPT
                                  ![displayNum].Inputs =
                                      parseLinuxInputSources(capabilities)]
                /\ pc' = "getLinuxCurrentInput"
                /\ UNCHANGED <<displayNum, ret>>
           ELSE NextLinuxMonitor(monitors)
    /\ UNCHANGED <<envVars, brightness, entry, args, tool, baseDisplays, enhanced,
                   validated, validation, probeVars>>

\* getLinuxCurrentInput, and the end of enhanceLinuxMonitorWithCapabilities
GetLinuxCurrentInput ==
    /\ pc = "getLinuxCurrentInput"
    /\ \E outcome \in ReadOutcomes("ddcutil", NoDeadline), v \in CurrentValues :
        /\ ran' = Append(ran,
                    Started([bin |-> "ddcutil",
                             argv |-> <<"--display", monitors[displayNum].ID,
                                        "getvcp", "60">>],
                            NoDeadline, outcome))
        /\ IF outcome = "hang"
           THEN /\ Hang
                /\ UNCHANGED <<monitors, displayNum>>
           ELSE IF outcome = "ok"
           THEN NextLinuxMonitor(
                  [monitors EXCEPT
                     ![displayNum].CurrentInput = linuxInputCodeToName(v % 256)])
           ELSE NextLinuxMonitor(monitors)
    /\ UNCHANGED <<envVars, brightness, entry, args, tool, baseDisplays, enhanced,
                   validated, validation, probeVars>>

(* ------------------------------------------------------------------ *)
(* DetectMonitors                                                       *)
(* ------------------------------------------------------------------ *)

DetectMonitors ==
    /\ pc = "start"
    /\ entry' = "DetectMonitors"
    /\ CASE osType = OSLinux -> detectLinuxMonitors
         [] osType = OSMacOS -> detectMacOSMonitors
         [] osType = OSWindows ->
              /\ Return([err |-> "Windows DDC not implemented yet",
                         monitors |-> << >>, value |-> 0])
              /\ UNCHANGED <<tool, ran, loopVars, validation, probeVars, brightness>>
         [] OTHER ->
              /\ Return([err |-> "unsupported OS", monitors |-> << >>, value |-> 0])
              /\ UNCHANGED <<tool, ran, loopVars, validation, probeVars, brightness>>
    /\ UNCHANGED <<envVars, args>>

(* ------------------------------------------------------------------ *)
(* Specification: one call per process                                  *)
(* ------------------------------------------------------------------ *)

Next ==
    \/ DetectMonitors
    \/ GetCapabilities
    \/ SetVCP
    \/ GetVCP
    \/ EnhancedDisplayWithValidation
    \/ TestReadBrightness
    \/ ProbeWrite
    \/ ReRead
    \/ Restore
    \/ AddReadOnlyInfo
    \/ AddFullDDCInfo
    \/ DetectAvailableInputs
    \/ DetectWithDdcutil
    \/ EnhanceLinuxMonitor
    \/ GetLinuxCurrentInput
    \/ DetectWithCoreSystem

Spec == Init /\ [][Next]_vars


(* ------------------------------------------------------------------ *)
(* Specification of the probe value alone: testWriteBrightness's        *)
(* arithmetic on every uint16 original brightness                       *)
(* ------------------------------------------------------------------ *)

ProbeInit ==
    /\ original \in 0..(Uint16Mod - 1)
    /\ pc = "probe"
    /\ entry = "testWriteBrightness"
    /\ osType = OSMacOS
    /\ installed = {"m1ddc"}
    /\ brightness = [d \in 1..MaxDisplays |-> 0]
    /\ args = NoArgs
    /\ tool = "m1ddc"
    /\ ran = << >>
    /\ validated = << >>
    /\ baseDisplays = << >>
    /\ monitors = << >>
    /\ displayNum = 1
    /\ enhanced = NoMonitor
    /\ validation = NoValidation
    /\ testValue = 0
    /\ newBrightness = 0
    /\ ret = NoRet

\* lines 587-595 of testWriteBrightness
ComputeProbe ==
    /\ pc = "probe"
    /\ testValue' = probeValue(original)
    /\ pc' = "probed"
    /\ UNCHANGED <<envVars, brightness, entry, args, tool, ran, loopVars, validation,
                   original, newBrightness, ret>>

\* lines 597-605 of testWriteBrightness when the write changes nothing:
\* setBrightnessValue returns nil, the display keeps originalBrightness and
\* testReadBrightness reads it back
ReadBackUnchanged ==
    /\ pc = "probed"
    /\ newBrightness' = original
    /\ pc' = "reread"
    /\ UNCHANGED <<envVars, brightness, entry, args, tool, ran, loopVars, validation,
                   original, testValue, ret>>

ProbeNext ==
    \/ ComputeProbe
    \/ ReadBackUnchanged

SpecProbe == ProbeInit /\ [][ProbeNext]_vars

(* ------------------------------------------------------------------ *)
(* Specification of the parsers alone: each is applied to the texts     *)
(* built from a few kinds of line                                       *)
(* ------------------------------------------------------------------ *)

\* lines of a ddcutil detect transcript (number: the display number of a
\* "Display N" header line, "" for any other line)
DetectLines ==
    { [text |-> "Display 1", number |-> "1"],
      [text |-> "Display 2", number |-> "2"],
      [text |-> "Display info", number |-> ""],
      [text |-> "   Mfg id:               DEL", number |-> ""],
      [text |-> "   Model:                U2720Q", number |-> ""] }

\* lines of an xrandr --listmonitors output
XrandrLines ==
    { [text |-> "Monitors: 1"],
      [text |-> " 0: +HDMI-1 1920x1080+0+0  HDMI-1"],
      [text |-> " 1: +DP-1 2560/597x1440/336+1920+0  DP-1"],
      [text |-> "xrandr: Failed to get size of gamma for output default"],
      [text |-> ""] }

\* lines of a ddcutil capabilities output (kind: the header of the input
\* source feature, a Values line with its valid hex codes, the header of
\* another feature, anything else)
CapabilityLines ==
    { [text |-> "Feature: 60 (Input Source)", kind |-> "header", codes |-> {}],
      [text |-> "Values: 0F 11 12", kind |-> "values", codes |-> {15, 17, 18}],
      [text |-> "      Values: 03 zz C8 0f", kind |-> "values",
       codes |-> {3, 200, 15}],
      [text |-> "   Feature: 10 (Brightness)", kind |-> "feature", codes |-> {}],
      [text |-> "Model: U2720Q", kind |-> "other", codes |-> {}] }

\* the parts of a value helper's output: what precedes the reading, the
\* reading, what follows it (first: the first integer in the part; ddcctl,
\* m1ddc: the value a labelled pattern of that tool finds in it; -1: none)
ValuePrefixes ==
    { [text |-> "", first |-> -1],
      [text |-> "Display 2: ", first |-> 2],
      [text |-> "  VCP ", first |-> -1] }

ValueReadings ==
    { [text |-> "control #16 = 75", first |-> 16, ddcctl |-> 75, m1ddc |-> -1,
       numbers |-> {16, 75}],
      [text |-> "brightness = 75", first |-> 75, ddcctl |-> 75, m1ddc |-> -1,
       numbers |-> {75}],
      [text |-> "75", first |-> 75, ddcctl |-> -1, m1ddc |-> -1, numbers |-> {75}],
      [text |-> "control #16=75", first |-> 16, ddcctl |-> -1, m1ddc |-> -1,
       numbers |-> {16, 75}],
      [text |-> "luminance: 75", first |-> 75, ddcctl |-> -1, m1ddc |-> 75,
       numbers |-> {75}],
      [text |-> "luminance: 65611", first |-> 65611, ddcctl |-> -1, m1ddc |-> 65611,
       numbers |-> {65611}],
      [text |-> "input = 17", first |-> 17, ddcctl |-> 17, m1ddc |-> -1,
       numbers |-> {17}],
      [text |-> "input: 17", first |-> 17, ddcctl |-> -1, m1ddc |-> 17,
       numbers |-> {17}],
      [text |-> "no value", first |-> -1, ddcctl |-> -1, m1ddc |-> -1,
       numbers |-> {}] }

ValueSuffixes ==
    { [text |-> "", first |-> -1],
      [text |-> "\n", first |-> -1],
      [text |-> " (max 100)", first |-> 100] }

\* the texts of the lines joined by newlines
RECURSIVE JoinLines(_)
JoinLines(lines) ==
    IF lines = << >> THEN ""
    ELSE IF Len(lines) = 1 THEN lines[1].text
    ELSE lines[1].text \o "\n" \o JoinLines(Tail(lines))

Parsers ==
    {"parseDdcutilDetectOutput", "parseXrandrOutput", "parseLinuxInputSources",
     "parseVCPValue", "getSystemProfilerDisplays"}

\* the arguments each parser is applied to
ParserInputs(parser) ==
    CASE parser = "parseDdcutilDetectOutput" ->
           {[lines |-> ls, output |-> JoinLines(ls)] :
               ls \in SeqsUpTo(DetectLines, MaxLines)}
      [] parser = "parseXrandrOutput" ->
           {[lines |-> ls, output |-> JoinLines(ls)] :
               ls \in SeqsUpTo(XrandrLines, MaxLines)}
      [] parser = "parseLinuxInputSources" ->
           {[lines |-> ls, output |-> JoinLines(ls)] :
               ls \in SeqsUpTo(CapabilityLines, MaxLines)}
      [] parser = "parseVCPValue" ->
           {[output |-> pre.text \o reading.text \o post.text,
             tool |-> t,
             first |-> IF pre.first # -1 THEN pre.first
                       ELSE IF reading.first # -1 THEN reading.first
                       ELSE post.first,
             labelled |-> IF t = "ddcctl" THEN reading.ddcctl ELSE reading.m1ddc,
             numbers |-> reading.numbers \cup ({pre.first, post.first} \ {-1})] :
               pre \in ValuePrefixes, reading \in ValueReadings,
               post \in ValueSuffixes, t \in {"ddcctl", "m1ddc"}}
      [] OTHER ->
           {[inventory |-> inv, outcome |-> outcome] :
               inv \in Inventories, outcome \in {"ok"}}
           \cup {[inventory |-> << >>, outcome |-> outcome] :
                    outcome \in {"fail", "unparsable"}}

ParseInit ==
    /\ entry \in Parsers
    /\ args \in ParserInputs(entry)
    /\ pc = "parse"
    /\ osType = OSLinux
    /\ installed = {}
    /\ brightness = [d \in 1..MaxDisplays |-> 0]
    /\ tool = Unset
    /\ ran = << >>
    /\ validated = << >>
    /\ baseDisplays = << >>
    /\ monitors = << >>
    /\ displayNum = 0
    /\ enhanced = NoMonitor
    /\ validation = NoValidation
    /\ original = 0
    /\ testValue = 0
    /\ newBrightness = 0
    /\ ret = NoRet

Parsed(r) ==
    /\ pc' = "parsed"
    /\ ret' = r
    /\ UNCHANGED <<envVars, brightness, entry, args, tool, ran, loopVars, validation,
                   probeVars>>

ParseDdcutilDetectOutput ==
    /\ pc = "parse"
    /\ entry = "parseDdcutilDetectOutput"
    /\ Parsed([monitors |-> parseDdcutilDetectOutput(args.output)])

ParseXrandrOutput ==
    /\ pc = "parse"
    /\ entry = "parseXrandrOutput"
    /\ Parsed([monitors |-> parseXrandrOutput(args.output), err |-> ""])

ParseLinuxInputSources ==
    /\ pc = "parse"
    /\ entry = "parseLinuxInputSources"
    /\ Parsed([inputs |-> parseLinuxInputSources(args.output)])

ParseVCPValue ==
    /\ pc = "parse"
    /\ entry = "parseVCPValue"
    /\ Parsed(parseVCPValue(args.output, args.tool))

GetSystemProfilerDisplays ==
    /\ pc = "parse"
    /\ entry = "getSystemProfilerDisplays"
    /\ Parsed(getSystemProfilerDisplays(args.outcome, args.inventory))

ParseNext ==
    \/ ParseDdcutilDetectOutput
    \/ ParseXrandrOutput
    \/ ParseLinuxInputSources
    \/ ParseVCPValue
    \/ GetSystemProfilerDisplays

SpecParse == ParseInit /\ [][ParseNext]_vars

(* ------------------------------------------------------------------ *)
(* Detector: OS information                                             *)
(* ------------------------------------------------------------------ *)

UpperLetters == <<"A", "B", "C", "D", "E", "F", "G", "H", "I", "J", "K", "L", "M",
                  "N", "O", "P", "Q", "R", "S", "T", "U", "V", "W", "X", "Y", "Z">>

LowerLetters == <<"a", "b", "c", "d", "e", "f", "g", "h", "i", "j", "k", "l", "m",
                  "n", "o", "p", "q", "r", "s", "t", "u", "v", "w", "x", "y", "z">>

\* the character c mapped from one letter table to the other
MapLetter(c, from, to) ==
    LET at == {k \in DOMAIN from : from[k] = c}
    IN  IF at = {} THEN c ELSE to[Least(at)]

\* strings.ToLower, from the i-th character on
RECURSIVE ToLowerFrom(_, _)
ToLowerFrom(s, i) ==
    IF i > Len(s) THEN ""
    ELSE MapLetter(CharAt(s, i), UpperLetters, LowerLetters) \o ToLowerFrom(s, i + 1)

\* strings.ToLower
ToLower(s) == ToLowerFrom(s, 1)

\* strings.Title of a single word
Title(s) ==
    IF s = "" THEN ""
    ELSE MapLetter(CharAt(s, 1), LowerLetters, UpperLetters) \o Suffix(s, 2)

\* strings.SplitN(s, sep, 2)
SplitN2(s, sep) ==
    LET i == Index(s, sep)
    IN  IF i = 0 THEN <<s>>
        ELSE <<SubSeq(s, 1, i - 1), Suffix(s, i + Len(sep))>>

\* strings.Trim(s, cutset)
Trim(s, cutset) ==
    LET solid == {i \in 1..Len(s) : CharAt(s, i) \notin cutset}
    IN  IF solid = {} THEN "" ELSE SubSeq(s, Least(solid), Greatest(solid))

Quotes == {"\"", "'"}

\* the element of a one-element set: The({F(x) : x \in {e}}) is F(e) with e
\* computed once
The(S) == CHOOSE x \in S : TRUE

\* a file that does not exist; a file is modelled by the lines a
\* bufio.Scanner yields for it
NoFile == [exists |-> FALSE, lines |-> << >>, readErr |-> FALSE]

\* a file that is read to its end
File(lines) == [exists |-> TRUE, lines |-> lines, readErr |-> FALSE]

\* a file whose read fails after its lines were scanned
BrokenFile(lines) == [exists |-> TRUE, lines |-> lines, readErr |-> TRUE]

\* &LinuxInfo{}
NoLinuxInfo ==
    [Name |-> "", Version |-> "", ID |-> "", VersionID |-> "", PrettyName |-> "",
     Codename |-> "", KernelName |-> "", KernelRelease |-> "", KernelVersion |-> "",
     Machine |-> ""]

\* getKernelInfo: the fields of uname, untouched when the syscall fails
getKernelInfo(info, unameOK) ==
    IF unameOK
    THEN [info EXCEPT !.KernelName = "Linux", !.KernelRelease = "6.8.0",
                      !.KernelVersion = "#1 SMP", !.Machine = "x86_64"]
    ELSE info

\* the key and the unquoted value of a KEY=value line, << >> for a line the
\* parsers skip
KeyValue(raw, sep, cutset) ==
    The({ The({ IF line = "" \/ HasPrefix(line, "#") \/ Len(parts) # 2 THEN << >>
                ELSE <<TrimSpace(parts[1]), Trim(TrimSpace(parts[2]), cutset)>> :
                parts \in {SplitN2(line, sep)} }) :
          line \in {TrimSpace(raw)} })

\* the switch of parseOSRelease on one line
osReleaseLine(info, raw) ==
    The({ IF kv = << >> THEN info
        ELSE CASE kv[1] = "NAME" -> [info EXCEPT !.Name = kv[2]]
               [] kv[1] = "VERSION" -> [info EXCEPT !.Version = kv[2]]
               [] kv[1] = "ID" -> [info EXCEPT !.ID = kv[2]]
               [] kv[1] = "VERSION_ID" -> [info EXCEPT !.VersionID = kv[2]]
               [] kv[1] = "PRETTY_NAME" -> [info EXCEPT !.PrettyName = kv[2]]
               [] kv[1] = "VERSION_CODENAME" -> [info EXCEPT !.Codename = kv[2]]
               [] kv[1] = "UBUNTU_CODENAME" ->
                    IF info.Codename = "" THEN [info EXCEPT !.Codename = kv[2]]
                    ELSE info
               [] OTHER -> info :
          kv \in {KeyValue(raw, "=", Quotes)} })

RECURSIVE osReleaseLines(_, _)
osReleaseLines(info, lines) ==
    IF lines = << >> THEN info
    ELSE The({ osReleaseLines(next, rest) :
               next \in {osReleaseLine(info, Head(lines))}, rest \in {Tail(lines)} })

\* parseOSRelease: the error it returns and the caller's record as it leaves
\* it (it writes into the record while it scans, before it knows whether it
\* will succeed)
parseOSRelease(info, file) ==
    IF ~file.exists
    THEN [err |-> "open /etc/os-release: no such file or directory", info |-> info]
    ELSE The({ [err |-> IF file.readErr THEN "read /etc/os-release: input/output error"
                        ELSE IF scanned.Name = "" /\ scanned.ID = "" /\ scanned.PrettyName = ""
                        THEN "no useful information found in /etc/os-release"
                        ELSE "",
                info |-> scanned] :
               scanned \in {osReleaseLines(info, file.lines)} })

\* the switch of parseLSBRelease on one line
lsbReleaseLine(info, raw) ==
    The({ IF kv = << >> THEN info
        ELSE CASE kv[1] = "DISTRIB_ID" ->
                    [info EXCEPT !.ID = ToLower(kv[2]), !.Name = kv[2]]
               [] kv[1] = "DISTRIB_RELEASE" ->
                    [info EXCEPT !.Version = kv[2], !.VersionID = kv[2]]
               [] kv[1] = "DISTRIB_DESCRIPTION" -> [info EXCEPT !.PrettyName = kv[2]]
               [] kv[1] = "DISTRIB_CODENAME" -> [info EXCEPT !.Codename = kv[2]]
               [] OTHER -> info :
          kv \in {KeyValue(raw, "=", Quotes)} })

RECURSIVE lsbReleaseLines(_, _)
lsbReleaseLines(info, lines) ==
    IF lines = << >> THEN info
    ELSE The({ lsbReleaseLines(next, rest) :
               next \in {lsbReleaseLine(info, Head(lines))}, rest \in {Tail(lines)} })

parseLSBRelease(info, file) ==
    IF ~file.exists
    THEN [err |-> "open /etc/lsb-release: no such file or directory", info |-> info]
    ELSE The({ [err |-> IF file.readErr THEN "read /etc/lsb-release: input/output error"
                        ELSE IF scanned.Name = "" /\ scanned.ID = ""
                        THEN "no useful information found in /etc/lsb-release"
                        ELSE "",
                info |-> scanned] :
               scanned \in {lsbReleaseLines(info, file.lines)} })

\* the table of parseDistributionSpecificFiles
ReleaseFiles ==
    << [path |-> "/etc/redhat-release", distro |-> "redhat"],
       [path |-> "/etc/centos-release", distro |-> "centos"],
       [path |-> "/etc/fedora-release", distro |-> "fedora"],
       [path |-> "/etc/debian_version", distro |-> "debian"],
       [path |-> "/etc/arch-release", distro |-> "arch"],
       [path |-> "/etc/gentoo-release", distro |-> "gentoo"],
       [path |-> "/etc/alpine-release", distro |-> "alpine"],
       [path |-> "/etc/slackware-version", distro |-> "slackware"] >>

\* readReleaseFile: the trimmed first line of a marker file; markers maps the
\* paths that exist to their lines
readReleaseFile(markers, path) ==
    IF path \notin DOMAIN markers
    THEN [err |-> "open " \o path \o ": no such file or directory", content |-> ""]
    ELSE IF markers[path] = << >> THEN [err |-> "empty file", content |-> ""]
    ELSE [err |-> "", content |-> TrimSpace(Head(markers[path]))]

\* extractVersion: the first word with a dot that starts with a digit
extractVersion(content) ==
    The({ The({ IF hits = {} THEN "" ELSE words[Least(hits)] :
                hits \in {{k \in DOMAIN words :
                             /\ Contains(words[k], ".")
                             /\ Len(words[k]) >= 3
                             /\ CharAt(words[k], 1) \in Digits}} }) :
          words \in {Fields(content)} })

parseDistributionSpecificFiles(info, markers) ==
    The({ IF readable = {}
          THEN [err |-> "no distribution-specific files found", info |-> info]
          ELSE The({ [err |-> "",
                      info |-> IF version # ""
                               THEN [info EXCEPT !.ID = rf.distro,
                                                 !.Name = Title(rf.distro),
                                                 !.PrettyName = content,
                                                 !.Version = version,
                                                 !.VersionID = version]
                               ELSE [info EXCEPT !.ID = rf.distro,
                                                 !.Name = Title(rf.distro),
                                                 !.PrettyName = content]] :
                     rf \in {ReleaseFiles[Least(readable)]},
                     content \in {readReleaseFile(
                                     markers, ReleaseFiles[Least(readable)].path).content},
                     version \in {extractVersion(
                                     readReleaseFile(
                                       markers,
                                       ReleaseFiles[Least(readable)].path).content)} }) :
          readable \in {{k \in DOMAIN ReleaseFiles :
                           readReleaseFile(markers, ReleaseFiles[k].path).err = ""}} })

\* getDistributionInfo: os-release, then lsb-release, then the marker files,
\* each handed the record the one before it left; source is the one that
\* succeeded
getDistributionInfo(info, fs) ==
    The({ IF a.err = "" THEN [err |-> "", info |-> a.info, source |-> "os-release"]
          ELSE The({ IF b.err = ""
                     THEN [err |-> "", info |-> b.info, source |-> "lsb-release"]
                     ELSE The({ IF c.err = ""
                                THEN [err |-> "", info |-> c.info,
                                      source |-> "markers"]
                                ELSE [err |-> "could not detect distribution information",
                                      info |-> c.info, source |-> "none"] :
                                c \in {parseDistributionSpecificFiles(
                                          b.info, fs.markers)} }) :
                     b \in {parseLSBRelease(a.info, fs.lsbRelease)} }) :
          a \in {parseOSRelease(info, fs.osRelease)} })

\* DetectLinuxInfo
DetectLinuxInfoResult(os, fs) ==
    IF os # OSLinux THEN [err |-> "not running on Linux", info |-> NoLinuxInfo]
    ELSE The({ IF r.err # ""
               THEN [err |-> "failed to detect distribution info: " \o r.err,
                     info |-> NoLinuxInfo]
               ELSE [err |-> "", info |-> r.info] :
               r \in {getDistributionInfo(getKernelInfo(NoLinuxInfo, fs.unameOK), fs)} })

\* &MacOSInfo{}
NoMacOSInfo ==
    [ProductName |-> "", ProductVersion |-> "", BuildVersion |-> "",
     KernelName |-> "", KernelRelease |-> "", KernelVersion |-> "", Machine |-> "",
     ModelName |-> "", ModelID |-> ""]

\* getMacOSSystemInfo: the fields of uname
getMacOSSystemInfo(info, unameOK) ==
    IF unameOK
    THEN [err |-> "",
          info |-> [info EXCEPT !.KernelName = "Darwin", !.KernelRelease = "24.6.0",
                                !.KernelVersion = "Darwin Kernel Version 24.6.0",
                                !.Machine = "arm64"]]
    ELSE [err |-> "uname failed", info |-> info]

\* the switch of parseSWVers on one line
swVersLine(info, raw) ==
    LET line == TrimSpace(raw)
        parts == SplitN2(line, ":")
    IN  IF line = "" \/ Len(parts) # 2 THEN info
        ELSE LET key == TrimSpace(parts[1])
                 value == TrimSpace(parts[2])
             IN  CASE key = "ProductName" -> [info EXCEPT !.ProductName = value]
                   [] key = "ProductVersion" -> [info EXCEPT !.ProductVersion = value]
                   [] key = "BuildVersion" -> [info EXCEPT !.BuildVersion = value]
                   [] OTHER -> info

RECURSIVE swVersLines(_, _)
swVersLines(info, lines) ==
    IF lines = << >> THEN info
    ELSE swVersLines(swVersLine(info, Head(lines)), Tail(lines))

\* parseSWVers on what sw_vers printed
parseSWVers(info, swVers) ==
    IF swVers.outcome # "ok" THEN [err |-> "failed", info |-> info]
    ELSE LET scanned == swVersLines(info, Split(swVers.output, "\n"))
         IN  [err |-> IF scanned.ProductName = "" /\ scanned.ProductVersion = ""
                      THEN "no useful information from sw_vers" ELSE "",
              info |-> scanned]

\* the loop of parseSystemVersionPlist over the keys of the dict
RECURSIVE plistEntries(_, _, _, _)
plistEntries(info, keys, values, i) ==
    IF i > Len(keys) \/ i > Len(values) THEN info
    ELSE plistEntries(
           CASE keys[i] = "ProductName" -> [info EXCEPT !.ProductName = values[i]]
             [] keys[i] = "ProductVersion" -> [info EXCEPT !.ProductVersion = values[i]]
             [] keys[i] = "ProductBuildVersion" ->
                  [info EXCEPT !.BuildVersion = values[i]]
             [] OTHER -> info,
           keys, values, i + 1)

\* parseSystemVersionPlist on the decoded SystemVersion.plist
parseSystemVersionPlist(info, plist) ==
    IF ~plist.exists
    THEN [err |-> "failed to open /System/Library/CoreServices/SystemVersion.plist",
          info |-> info]
    ELSE IF ~plist.decodes
    THEN [err |-> "failed to parse SystemVersion.plist", info |-> info]
    ELSE IF Len(plist.Keys) # Len(plist.Values)
    THEN [err |-> "malformed plist: keys and values count mismatch", info |-> info]
    ELSE LET scanned == plistEntries(info, plist.Keys, plist.Values, 1)
         IN  [err |-> IF scanned.ProductName = "" /\ scanned.ProductVersion = ""
                      THEN "no useful information from SystemVersion.plist" ELSE "",
              info |-> scanned]

\* the loop of parseSystemProfiler over the lines of SPHardwareDataType
RECURSIVE hardwareLines(_, _)
hardwareLines(info, lines) ==
    IF lines = << >> THEN info
    ELSE LET line == TrimSpace(Head(lines))
             parts == SplitN2(line, ":")
             named == IF Contains(line, "Model Name:") /\ Len(parts) = 2
                      THEN [info EXCEPT !.ModelName = TrimSpace(parts[2])]
                      ELSE info
             identified == IF Contains(line, "Model Identifier:") /\ Len(parts) = 2
                           THEN [named EXCEPT !.ModelID = TrimSpace(parts[2])]
                           ELSE named
         IN  hardwareLines(identified, Tail(lines))

\* getMacOSHardwareInfo: system_profiler, else sysctl -n hw.model
getMacOSHardwareInfo(info, hw) ==
    IF hw.profiler.outcome = "ok"
    THEN hardwareLines(info, Split(hw.profiler.output, "\n"))
    ELSE IF hw.sysctl.outcome = "ok"
    THEN [info EXCEPT !.ModelName = TrimSpace(hw.sysctl.output)]
    ELSE info

\* GetMacOSSystemInfo: sw_vers, then SystemVersion.plist
GetMacOSSystemInfo(info, env) ==
    LET a == parseSWVers(info, env.swVers)
        b == parseSystemVersionPlist(a.info, env.plist)
    IN  IF a.err = ""
        THEN [err |-> "", info |-> getMacOSHardwareInfo(a.info, env.hardware),
              source |-> "sw_vers"]
        ELSE IF b.err = ""
        THEN [err |-> "", info |-> getMacOSHardwareInfo(b.info, env.hardware),
              source |-> "plist"]
        ELSE [err |-> "could not detect macOS system information", info |-> b.info,
              source |-> "none"]

\* DetectMacOSInfo: getMacOSSystemInfo twice, the first error only a warning
DetectMacOSInfoResult(os, env) ==
    IF os # OSMacOS THEN [err |-> "not running on macOS", info |-> NoMacOSInfo]
    ELSE LET first == getMacOSSystemInfo(NoMacOSInfo, env.unameOK[1])
             second == getMacOSSystemInfo(first.info, env.unameOK[2])
         IN  IF second.err # ""
             THEN [err |-> "failed to detect macOS system info: " \o second.err,
                   info |-> NoMacOSInfo]
             ELSE [err |-> "", info |-> second.info]

\* GetOSInfo of the build for every OS but Windows
GetOSInfoText(os, env) ==
    CASE os = OSLinux ->
           The({ IF r.err # ""
                 THEN "Operating System: " \o os \o " (Error: " \o r.err \o ")"
                 ELSE "Operating System: " \o os \o " (" \o r.info.Name \o " "
                      \o r.info.Version \o ")" :
                 r \in {DetectLinuxInfoResult(os, env)} })
      [] os = OSMacOS ->
           The({ IF r.err # ""
                 THEN "Operating System: " \o os \o " (Error: " \o r.err \o ")"
                 ELSE "Operating System: " \o os \o " (" \o r.info.ProductName \o " "
                      \o r.info.ProductVersion \o ")" :
                 r \in {DetectMacOSInfoResult(os, env)} })
      [] OTHER -> ""

\* DetectWindowsInfo: the registry, systeminfo, wmic and ver, tried in this
\* order; env tells whether one of them yields a product name and version
DetectWindowsInfo(os, env) ==
    IF os # OSWindows
    THEN [err |-> "not running on Windows", ProductName |-> "", Version |-> ""]
    ELSE IF env.found
    THEN [err |-> "", ProductName |-> env.ProductName, Version |-> env.Version]
    ELSE [err |-> "could not detect Windows system information",
          ProductName |-> "", Version |-> ""]

\* GetOSInfo of the Windows build
GetOSInfoText_windows(os, env) ==
    IF os = OSWindows
    THEN LET r == DetectWindowsInfo(os, env)
         IN  IF r.err # ""
             THEN "Operating System: " \o os \o " (Error: " \o r.err \o ")"
             ELSE "Operating System: " \o os \o " (" \o r.ProductName \o " "
                  \o r.Version \o ")"
    ELSE ""

(* ------------------------------------------------------------------ *)
(* Detector: DDC support and monitor detection                          *)
(* ------------------------------------------------------------------ *)

\* the helper binaries the Detector looks up
DetectorTools == {"ddcutil", "m1ddc", "ddcctl", "ddccci", "ControlMyMonitor"}

\* exec.LookPath(bin) returned no error
LookPath(bin, tools) == bin \in tools

\* CheckDDCSupport of the build for every OS but Windows
checkDDCSupport(os, tools) ==
    IF os = OSLinux /\ LookPath("ddcutil", tools)
    THEN [supported |-> TRUE, message |-> "DDC/CI support detected via ddcutil"]
    ELSE IF os = OSLinux
    THEN [supported |-> FALSE,
          message |-> "ddcutil not found, DDC/CI support may not be available"]
    ELSE IF os = OSMacOS /\ (LookPath("m1ddc", tools) \/ LookPath("ddcctl", tools))
    THEN [supported |-> TRUE,
          message |-> "DDC/CI support detected via m1ddc or ddcctl"]
    ELSE [supported |-> FALSE, message |-> "DDC support check not implemented"]

checkWindowsDDCSupport(tools) ==
    IF LookPath("ddccci", tools)
    THEN [supported |-> FALSE, message |-> "DDC/CI support detected via ddccci"]
    ELSE IF LookPath("ControlMyMonitor", tools)
    THEN [supported |-> TRUE,
          message |-> "DDC/CI support detected via ControlMyMonitor"]
    ELSE [supported |-> FALSE,
          message |-> "No DDC/CI tools found. Install ddccci or ControlMyMonitor"]

\* CheckDDCSupport of the Windows build
checkDDCSupport_windows(os, tools) ==
    IF os = OSWindows THEN checkWindowsDDCSupport(tools)
    ELSE [supported |-> FALSE, message |-> "DDC support check not implemented"]

\* the Detector of the running program: runtime.GOOS names the OS and the
\* build constraint picks the file
IsWindowsBuild(os) == os = OSWindows

\* what a detection returns: the list, the error, the helper it ran
Detected(ms, err, log) == [monitors |-> ms, err |-> err, ran |-> log]

\* Detector.detectLinuxMonitors with the placeholder replaced by the parser
Detector_detectLinuxMonitors_Parsed(tools, helper) ==
    LET cmd == [bin |-> "ddcutil", argv |-> <<"detect">>]
        log == <<Printed(cmd, NoDeadline, helper.outcome, helper.output)>>
    IN  IF ~LookPath("ddcutil", tools) THEN Detected(<< >>, "ddcutil not found", << >>)
        ELSE IF helper.outcome # "ok" THEN Detected(<< >>, "ddcutil detect failed", log)
        ELSE IF TrimSpace(helper.output) = "" THEN Detected(<< >>, "", log)
        ELSE Detected(parseDdcutilDetectOutput(helper.output), "", log)

\* Detector.detectLinuxMonitors
Detector_detectLinuxMonitors(tools, helper) ==
    LET cmd == [bin |-> "ddcutil", argv |-> <<"detect">>]
        log == <<Printed(cmd, NoDeadline, helper.outcome, helper.output)>>
    IN  IF ~LookPath("ddcutil", tools) THEN Detected(<< >>, "ddcutil not found", << >>)
        ELSE IF helper.outcome # "ok" THEN Detected(<< >>, "ddcutil detect failed", log)
        ELSE IF TrimSpace(helper.output) = "" THEN Detected(<< >>, "", log)
        ELSE Detected(<< >>, "", log)

\* Detector.detectWithM1DDC
detectWithM1DDC(helper) ==
    LET cmd == [bin |-> "m1ddc", argv |-> <<"display", "list">>]
        log == <<Printed(cmd, NoDeadline, helper.outcome, helper.output)>>
    IN  IF helper.outcome # "ok" THEN Detected(<< >>, "m1ddc list failed", log)
        ELSE IF TrimSpace(helper.output) = "" THEN Detected(<< >>, "", log)
        ELSE Detected(<< >>, "", log)

\* Detector.detectWithDDCCTL
detectWithDDCCTL(helper) ==
    LET cmd == [bin |-> "ddcctl", argv |-> <<"-d", "1">>]
        log == <<Printed(cmd, NoDeadline, helper.outcome, helper.output)>>
    IN  IF helper.outcome # "ok" THEN Detected(<< >>, "", log)
        ELSE Detected(<< >>, "", log)

\* Detector.detectMacOSMonitors
Detector_detectMacOSMonitors(tools, helper) ==
    IF LookPath("m1ddc", tools) THEN detectWithM1DDC(helper)
    ELSE IF LookPath("ddcctl", tools) THEN detectWithDDCCTL(helper)
    ELSE Detected(<< >>, "neither m1ddc nor ddcctl found", << >>)

\* Detector.DetectMonitors of the build for every OS but Windows
Detector_DetectMonitors(os, tools, helper) ==
    CASE os = OSLinux -> Detector_detectLinuxMonitors(tools, helper)
      [] os = OSMacOS -> Detector_detectMacOSMonitors(tools, helper)
      [] OTHER -> Detected(<< >>, "monitor detection not implemented for OS: " \o os,
                           << >>)

\* Detector.DetectMonitors of the Windows build
Detector_DetectMonitors_windows(os, tools) ==
    IF os # OSWindows THEN Detected(<< >>, "not running on Windows", << >>)
    ELSE IF ~checkWindowsDDCSupport(tools).supported
    THEN Detected(<< >>, "no DDC/CI tools available", << >>)
    ELSE Detected(<< >>, "", << >>)

\* Detector.CreateDDCClient (the same in both builds)
CreateDDCClientResult(os) ==
    [err |-> "DDC client not implemented for OS: " \o os, monitors |-> << >>,
     value |-> 0]

\* the report the detect command prints: the OS line, the support line, the
\* failure line, the "No DDC/CI compatible monitors detected" block, the
\* "Found %d monitors" count and the monitors listed after it
detectReport(osInfo, support, r, verbose) ==
    [osInfo |-> "Operating System: " \o osInfo,
     supported |-> support.supported,
     message |-> support.message,
     attempting |-> verbose,
     failure |-> r.err,
     noneDetected |-> Len(r.monitors) = 0,
     hints |-> verbose /\ Len(r.monitors) = 0,
     found |-> Len(r.monitors),
     listed |-> r.monitors]

(* ------------------------------------------------------------------ *)
(* Specification of the Detector and of the detect command: one call    *)
(* per process, on the files and helper tools of the machine            *)
(* ------------------------------------------------------------------ *)

OSReleaseLineKinds == {"NAME=\"Ubuntu\"", "VERSION='22.04'", "UBUNTU_CODENAME=jammy"}

LSBReleaseLineKinds == {"DISTRIB_ID=Ubuntu", "DISTRIB_CODENAME=focal"}

OSReleaseFiles ==
    {NoFile, BrokenFile(<<"NAME=\"Ubuntu\"", "VERSION='22.04'">>)}
    \cup {File(ls) : ls \in SeqsUpTo(OSReleaseLineKinds, MaxFileLines)}

LSBReleaseFiles ==
    {NoFile} \cup {File(ls) : ls \in SeqsUpTo(LSBReleaseLineKinds, MaxFileLines)}

\* no marker file exists
NoMarkers == [p \in {} |-> << >>]

\* the marker files that exist, each with its lines
MarkerSets ==
    { NoMarkers,
      [p \in {"/etc/debian_version"} |-> <<"12.1">>],
      [p \in {"/etc/redhat-release"} |-> <<"CentOS release 8.5 ">>],
      [p \in {"/etc/redhat-release", "/etc/arch-release"} |->
          IF p = "/etc/redhat-release" THEN << >> ELSE <<"Arch Linux">>] }

LinuxEnvs ==
    [osRelease : OSReleaseFiles, lsbRelease : LSBReleaseFiles, markers : MarkerSets,
     unameOK : BOOLEAN]

\* what sw_vers does: fails, or prints
SwVersRuns ==
    { [outcome |-> "fail", output |-> ""],
      [outcome |-> "ok", output |-> ""],
      [outcome |-> "ok", output |-> "ProductVersion: 15.6\n"],
      [outcome |-> "ok",
       output |-> "ProductName:\t\tmacOS\nProductVersion:\t\t15.6\n"
                  \o "BuildVersion:\t\t24G84\n"] }

\* SystemVersion.plist: missing, not XML, or decoded into keys and values
Plists ==
    { [exists |-> FALSE, decodes |-> FALSE, Keys |-> << >>, Values |-> << >>],
      [exists |-> TRUE, decodes |-> FALSE, Keys |-> << >>, Values |-> << >>],
      [exists |-> TRUE, decodes |-> TRUE,
       Keys |-> <<"ProductBuildVersion", "ProductName", "ProductVersion">>,
       Values |-> <<"24G84", "macOS">>],
      [exists |-> TRUE, decodes |-> TRUE,
       Keys |-> <<"ProductBuildVersion", "ProductName", "ProductVersion">>,
       Values |-> <<"24G84", "macOS", "15.6">>] }

HardwareRuns ==
    { [profiler |-> [outcome |-> "ok",
                     output |-> "Hardware:\n      Model Name: MacBook Pro\n"
                                \o "      Model Identifier: MacBookPro16,1\n"],
       sysctl |-> [outcome |-> "ok", output |-> "MacBookPro16,1\n"]],
      [profiler |-> [outcome |-> "fail", output |-> ""],
       sysctl |-> [outcome |-> "ok", output |-> "MacBookPro16,1\n"]],
      [profiler |-> [outcome |-> "fail", output |-> ""],
       sysctl |-> [outcome |-> "fail", output |-> ""]] }

MacEnvs ==
    [unameOK : [1..2 -> BOOLEAN], swVers : SwVersRuns, plist : Plists,
     hardware : HardwareRuns]

WindowsEnvs ==
    { [found |-> FALSE, ProductName |-> "", Version |-> ""],
      [found |-> TRUE, ProductName |-> "Windows 11 Pro", Version |-> "10.0.22000"] }

NoEnv == [found |-> FALSE, ProductName |-> "", Version |-> ""]

\* the machines GetOSInfo is run on
OSEnvs(os) ==
    CASE os = OSLinux -> LinuxEnvs
      [] os = OSMacOS -> MacEnvs
      [] os = OSWindows -> WindowsEnvs
      [] OTHER -> {NoEnv}

\* the machines the detect command is run on
DetectEnvs(os) ==
    CASE os = OSLinux ->
           {e \in LinuxEnvs :
               /\ e.unameOK
               /\ e.markers = NoMarkers
               /\ e.lsbRelease = NoFile
               /\ e.osRelease \in {NoFile, File(<<"NAME=\"Ubuntu\"", "VERSION='22.04'">>)}}
      [] os = OSMacOS ->
           {e \in MacEnvs :
               /\ e.unameOK = [k \in 1..2 |-> TRUE]
               /\ e.plist.decodes
               /\ e.hardware.profiler.outcome = "ok"}
      [] OTHER -> OSEnvs(os)

\* the helper tools installed on a machine of this OS: any of those the
\* Detector looks up on it, or all of them
InstalledSets(os) ==
    {DetectorTools}
    \cup SUBSET (CASE os = OSLinux -> {"ddcutil"}
                   [] os = OSMacOS -> {"m1ddc", "ddcctl"}
                   [] os = OSWindows -> {"ddccci", "ControlMyMonitor"}
                   [] OTHER -> {})

\* the helper Detector.DetectMonitors starts, "" when it starts none
DetectorHelper(os, tools) ==
    IF os = OSLinux /\ LookPath("ddcutil", tools) THEN "ddcutil"
    ELSE IF os = OSMacOS /\ LookPath("m1ddc", tools) THEN "m1ddc"
    ELSE IF os = OSMacOS /\ LookPath("ddcctl", tools) THEN "ddcctl"
    ELSE ""

NoHelper == [outcome |-> "none", output |-> ""]

\* how the helper's run can end and what it printed
HelperRuns(bin) ==
    IF bin = "" THEN {NoHelper}
    ELSE { [outcome |-> "fail", output |-> ""], [outcome |-> "hang", output |-> ""],
           [outcome |-> "ok", output |-> ""],
           [outcome |-> "ok",
            output |-> CASE bin = "ddcutil" ->
                              ddcutilTranscript(<<[mfg |-> "DEL", model |-> "U2720Q"]>>)
                         [] bin = "m1ddc" -> "[1] DELL U2720Q (0A1B2C3D)\n"
                         [] OTHER -> "D: NSScreen #1 (1920x1080)\n"] }

DetectorInit ==
    /\ osType \in OSTypes
    /\ installed \in InstalledSets(osType)
    /\ pc = "start"
    /\ entry = "none"
    /\ args = NoArgs
    /\ brightness = [d \in 1..MaxDisplays |-> 0]
    /\ tool = Unset
    /\ ran = << >>
    /\ validated = << >>
    /\ baseDisplays = << >>
    /\ monitors = << >>
    /\ displayNum = 0
    /\ enhanced = NoMonitor
    /\ validation = NoValidation
    /\ original = 0
    /\ testValue = 0
    /\ newBrightness = 0
    /\ ret = NoRet

\* what no Detector method touches
DetectorFrame ==
    UNCHANGED <<envVars, brightness, tool, loopVars, validation, probeVars>>

GetOSInfo ==
    /\ pc = "start"
    /\ entry' = "GetOSInfo"
    /\ \E env \in OSEnvs(osType) :
        /\ args' = [env |-> env]
        /\ Return([text |-> IF IsWindowsBuild(osType)
                            THEN GetOSInfoText_windows(osType, env)
                            ELSE GetOSInfoText(osType, env)])
    /\ UNCHANGED ran
    /\ DetectorFrame

DetectLinuxInfo ==
    /\ pc = "start"
    /\ ~IsWindowsBuild(osType)
    /\ entry' = "DetectLinuxInfo"
    /\ \E env \in (IF osType = OSLinux THEN LinuxEnvs ELSE {NoEnv}) :
        /\ args' = [env |-> env]
        /\ Return(DetectLinuxInfoResult(osType, env))
    /\ UNCHANGED ran
    /\ DetectorFrame

DetectMacOSInfo ==
    /\ pc = "start"
    /\ ~IsWindowsBuild(osType)
    /\ entry' = "DetectMacOSInfo"
    /\ \E env \in (IF osType = OSMacOS THEN MacEnvs ELSE {NoEnv}) :
        /\ args' = [env |-> env]
        /\ Return(DetectMacOSInfoResult(osType, env))
    /\ UNCHANGED ran
    /\ DetectorFrame

CheckDDCSupport ==
    /\ pc = "start"
    /\ entry' = "CheckDDCSupport"
    /\ args' = NoArgs
    /\ Return(IF IsWindowsBuild(osType) THEN checkDDCSupport_windows(osType, installed)
              ELSE checkDDCSupport(osType, installed))
    /\ UNCHANGED ran
    /\ DetectorFrame

CreateDDCClient ==
    /\ pc = "start"
    /\ entry' = "CreateDDCClient"
    /\ args' = NoArgs
    /\ Return(CreateDDCClientResult(osType))
    /\ UNCHANGED ran
    /\ DetectorFrame

\* Detector.DetectMonitors of the running build
DetectorDetection(helper) ==
    IF IsWindowsBuild(osType) THEN Detector_DetectMonitors_windows(osType, installed)
    ELSE Detector_DetectMonitors(osType, installed, helper)

DetectorDetectMonitors ==
    /\ pc = "start"
    /\ entry' = "Detector.DetectMonitors"
    /\ \E helper \in HelperRuns(DetectorHelper(osType, installed)) :
        LET r == DetectorDetection(helper)
        IN  /\ args' = [helper |-> helper]
            /\ ran' = r.ran
            /\ IF helper.outcome = "hang" THEN Hang
               ELSE Return([err |-> r.err, monitors |-> r.monitors, value |-> 0])
    /\ DetectorFrame

\* the Run function of the detect command
DetectCommand ==
    /\ pc = "start"
    /\ entry' = "detect"
    /\ \E env \in DetectEnvs(osType),
          helper \in HelperRuns(DetectorHelper(osType, installed)),
          verbose \in BOOLEAN :
        LET osInfo == IF IsWindowsBuild(osType) THEN GetOSInfoText_windows(osType, env)
                      ELSE GetOSInfoText(osType, env)
            support == IF IsWindowsBuild(osType)
                       THEN checkDDCSupport_windows(osType, installed)
                       ELSE checkDDCSupport(osType, installed)
            r == DetectorDetection(helper)
        IN  /\ args' = [env |-> env, helper |-> helper, verbose |-> verbose]
            /\ ran' = r.ran
            /\ IF helper.outcome = "hang" THEN Hang
               ELSE Return(detectReport(osInfo, support, r, verbose))
    /\ DetectorFrame

DetectorNext ==
    \/ GetOSInfo
    \/ DetectLinuxInfo
    \/ DetectMacOSInfo
    \/ CheckDDCSupport
    \/ CreateDDCClient
    \/ DetectorDetectMonitors
    \/ DetectCommand

SpecDetector == DetectorInit /\ [][DetectorNext]_vars

(* ------------------------------------------------------------------ *)
(* Native macOS transport: SetVCP and GetVCP over the I2C buses         *)
(* ------------------------------------------------------------------ *)

ByteMod == 256
HostAddress == 81
SetVCPCommand == 132
ChecksumSeed == 110
SetVCPSendBytes == 6
RecvDataSize == 11
MinReplyBytes == 8
ReplyOpcode == 2
StatusOK == 0
StatusNoService == -1
StatusNoBus == -2
Unwritten == -1

\* a ^ b on the n low bits
RECURSIVE XorBits(_, _, _)
XorBits(a, b, n) ==
    IF n = 0 THEN 0
    ELSE The({ ((a + b) % 2) + 2 * rest :
               rest \in {XorBits(a \div 2, b \div 2, n - 1)} })

\* a ^ b on UInt8
Xor(a, b) == XorBits(a, b, 8)

\* the six bytes of data[] that SetVCP sends
setVCPData(featureCode, value) ==
    LET high == (value \div ByteMod) % ByteMod
        low == value % ByteMod
    IN  <<HostAddress, SetVCPCommand, featureCode, high, low,
          Xor(Xor(Xor(ChecksumSeed, featureCode), high), low)>>

\* what one bus does with a request: IOFBCopyI2CInterfaceForBus fails,
\* IOI2CInterfaceOpen fails, IOI2CSendRequest fails, or the request is sent
WriteBusOutcomes == {"copyFail", "openFail", "sendFail", "sent"}

\* the requests IOI2CSendRequest was called with, up to the first success
RECURSIVE requestsSent(_, _)
requestsSent(buses, data) ==
    IF buses = << >> THEN << >>
    ELSE IF Head(buses) = "sent" THEN <<data>>
    ELSE IF Head(buses) = "sendFail" THEN <<data>> \o requestsSent(Tail(buses), data)
    ELSE requestsSent(Tail(buses), data)

\* the native SetVCP
nativeSetVCP(service, featureCode, value, buses) ==
    IF ~service THEN [status |-> StatusNoService, sent |-> << >>]
    ELSE [status |-> IF \E k \in DOMAIN buses : buses[k] = "sent"
                     THEN StatusOK ELSE StatusNoBus,
          sent |-> requestsSent(buses, setVCPData(featureCode, value))]

\* a bus on which the request was sent and these bytes came back
Reply(bytes) == [kind |-> "sent", bytes |-> bytes]

\* a bus that did not carry the request
Rejected(kind) == [kind |-> kind, bytes |-> << >>]

\* the test of the reply with the feature code left out
replyAccepted_OpcodeOnly(recvData, replyBytes, featureCode) ==
    /\ replyBytes >= MinReplyBytes
    /\ recvData[3] = ReplyOpcode

\* the test of lines 352 and 355 (recvData[2] and recvData[4] of the source
\* are the third and the fifth byte)
replyAccepted(recvData, replyBytes, featureCode) ==
    /\ replyBytes >= MinReplyBytes
    /\ recvData[3] = ReplyOpcode
    /\ recvData[5] = featureCode

\* the loop of GetVCP over the buses from bus k on: recvData holds what the
\* stack held and what earlier replies wrote, replyBytes the count the last
\* transaction left in the request
RECURSIVE getVCPBuses(_, _, _, _, _)
getVCPBuses(featureCode, buses, k, recvData, replyBytes) ==
    IF k > Len(buses)
    THEN [status |-> StatusNoBus, currentValue |-> Unwritten, maxValue |-> Unwritten]
    ELSE IF buses[k].kind # "sent"
    THEN getVCPBuses(featureCode, buses, k + 1, recvData, replyBytes)
    ELSE The({ The({ IF replyAccepted(buffer, n, featureCode)
                     THEN [status |-> StatusOK,
                           currentValue |-> buffer[9] * ByteMod + buffer[10],
                           maxValue |-> buffer[7] * ByteMod + buffer[8]]
                     ELSE getVCPBuses(featureCode, buses, k + 1, buffer, n) :
                     buffer \in {[i \in 1..RecvDataSize |->
                                    IF i <= n THEN buses[k].bytes[i]
                                    ELSE recvData[i]]} }) :
               n \in {IF Len(buses[k].bytes) < replyBytes THEN Len(buses[k].bytes)
                      ELSE replyBytes} })

\* the native GetVCP; garbage is what the uninitialised recvData holds
nativeGetVCP(service, featureCode, buses, garbage) ==
    IF ~service
    THEN [status |-> StatusNoService, currentValue |-> Unwritten,
          maxValue |-> Unwritten]
    ELSE getVCPBuses(featureCode, buses, 1, garbage, RecvDataSize)

\* feature codes and values of the calls: brightness and input source
NativeFeatureCodes == {16, 96}

NativeValues == {0, 50, 273, 65535}

\* the reply a display sends for a feature code: maximum 100, current 50
vcpReply(featureCode) ==
    <<110, 136, ReplyOpcode, 0, featureCode, 0, 0, 100, 0, 50,
      Xor(Xor(80, featureCode), 88)>>

\* the replies a bus returns: complete, cut after 8 or after 4 bytes, or with
\* another opcode
Replies ==
    {vcpReply(c) : c \in NativeFeatureCodes}
    \cup {SubSeq(vcpReply(16), 1, 8), SubSeq(vcpReply(16), 1, 4),
          [vcpReply(16) EXCEPT ![3] = 1]}

ReadBusOutcomes ==
    {Rejected(kind) : kind \in {"copyFail", "openFail", "sendFail"}}
    \cup {Reply(bytes) : bytes \in Replies}

\* what the stack can hold where recvData is allocated
GarbageBuffers ==
    {[i \in 1..RecvDataSize |-> 0], [i \in 1..RecvDataSize |-> 255], vcpReply(16)}

NativeInit ==
    /\ osType = OSMacOS
    /\ installed = {}
    /\ pc = "start"
    /\ entry = "none"
    /\ args = NoArgs
    /\ brightness = [d \in 1..MaxDisplays |-> 0]
    /\ tool = Unset
    /\ ran = << >>
    /\ validated = << >>
    /\ baseDisplays = << >>
    /\ monitors = << >>
    /\ displayNum = 0
    /\ enhanced = NoMonitor
    /\ validation = NoValidation
    /\ original = 0
    /\ testValue = 0
    /\ newBrightness = 0
    /\ ret = NoRet

Native_SetVCP ==
    /\ pc = "start"
    /\ entry' = "native SetVCP"
    /\ \E service \in BOOLEAN, featureCode \in NativeFeatureCodes,
          value \in NativeValues, buses \in SeqsUpTo(WriteBusOutcomes, MaxBuses) :
        /\ (service \/ buses = << >>)
        /\ args' = [service |-> service, featureCode |-> featureCode, value |-> value,
                    buses |-> buses]
        /\ Return(nativeSetVCP(service, featureCode, value, buses))
    /\ UNCHANGED <<envVars, brightness, tool, ran, loopVars, validation, probeVars>>

Native_GetVCP ==
    /\ pc = "start"
    /\ entry' = "native GetVCP"
    /\ \E service \in BOOLEAN, featureCode \in NativeFeatureCodes,
          buses \in SeqsUpTo(ReadBusOutcomes, MaxBuses), garbage \in GarbageBuffers :
        /\ (service \/ buses = << >>)
        /\ args' = [service |-> service, featureCode |-> featureCode, buses |-> buses,
                    garbage |-> garbage]
        /\ Return(nativeGetVCP(service, featureCode, buses, garbage))
    /\ UNCHANGED <<envVars, brightness, tool, ran, loopVars, validation, probeVars>>

NativeNext ==
    \/ Native_SetVCP
    \/ Native_GetVCP

SpecNative == NativeInit /\ [][NativeNext]_vars

(* ------------------------------------------------------------------ *)
(* Properties                                                           *)
(* ------------------------------------------------------------------ *)

\* the helper invocations that address the display under validation
OfCurrentDisplay(r) == Len(r.argv) >= 2 /\ r.argv[2] = ToString(displayNum)

ValidationLog == SelectSeq(ran, OfCurrentDisplay)

InValidation == entry \in {"enhancedDisplayWithValidation", "DetectMonitors"}

IsSetBrightness(r, value) ==
    /\ r.bin \in {"m1ddc", "ddcctl"}
    /\ r.argv = setBrightnessCommand(r.bin, displayNum, value).argv

IsReadBrightness(r) ==
    /\ r.bin \in {"m1ddc", "ddcctl"}
    /\ r.argv = readBrightnessCommand(r.bin, displayNum).argv

\* the probe write of the display under validation has been started
ProbeIssued ==
    /\ InValidation
    /\ Len(ValidationLog) >= 2
    /\ IsSetBrightness(ValidationLog[2], testValue)

\* a write of the original brightness was started after the probe write
RestoreAttempted ==
    \E k \in 3..Len(ValidationLog) : IsSetBrightness(ValidationLog[k], original)

\* testWriteBrightness is still running
InTestWrite == pc \in {"probeWrite", "reRead", "restore"}

\* validateDDCSupport has returned its result for the display under validation
ValidationReturned ==
    /\ InValidation
    /\ validation # NoValidation
    /\ ~InTestWrite

FirstReadOK ==
    /\ Len(ValidationLog) >= 1
    /\ IsReadBrightness(ValidationLog[1])
    /\ ValidationLog[1].outcome = "ok"

ProbeWriteExecuted == ProbeIssued /\ ExitedOK(ValidationLog[2].outcome)

ReReadOK ==
    /\ ProbeWriteExecuted
    /\ Len(ValidationLog) >= 3
    /\ IsReadBrightness(ValidationLog[3])
    /\ ValidationLog[3].outcome = "ok"

WriteIneffectiveText == "DDC commands execute but have no effect"

\* C1 (as claimed): once the probe write of testWriteBrightness has been
\* issued, a write restoring the original brightness has been attempted by the
\* time testWriteBrightness returns, whatever the probe write and the re-read
\* ended with.
C1_RestoreAlwaysAttempted ==
    (ProbeIssued /\ ~InTestWrite) => RestoreAttempted

\* C2 (as claimed): when DetectMonitors returns on macOS, enhancedDisplayWithValidation
\* has run on every external display of the inventory, once each, in list order.
C2_EveryDisplayValidatedInOrder ==
    (entry = "DetectMonitors" /\ osType = OSMacOS /\ pc = "done")
        => validated = [k \in 1..Len(baseDisplays) |-> k]

\* a macOS SetVCP / GetVCP with a numeric monitor ID has ended
MacVCPEnded ==
    /\ osType = OSMacOS
    /\ entry \in {"SetVCP", "GetVCP"}
    /\ pc # "start"
    /\ Atoi(args.monitorID).ok

\* C3 (as claimed): with ddcctl or m1ddc as the tool, SetVCP and GetVCP run
\* exactly one concrete command of that tool for a code in {0x10, 0x12, 0x60,
\* 0x62}, and for any other code return an error without running a command
\* (no silent no-op, no use of an unset command).
C3_CodeMappingTotal ==
    (MacVCPEnded /\ tool \in {"ddcctl", "m1ddc"})
        => IF args.code \in SupportedCodes
           THEN /\ Len(ran) = 1
                /\ ran[1].bin = tool
                /\ Len(ran[1].argv) > 0
                /\ pc = "done"
           ELSE /\ pc = "done"
                /\ ret.err # ""
                /\ ran = << >>

PreferenceList(os) ==
    IF os = OSMacOS THEN <<"m1ddc", "ddcctl">> ELSE <<"ddcutil", "ddccontrol">>

\* the first name of the list that resolves, "" when none does
FirstResolvable(list, path) ==
    IF \E k \in DOMAIN list : list[k] \in path
    THEN list[CHOOSE k \in DOMAIN list :
                /\ list[k] \in path
                /\ \A j \in 1..(k - 1) : list[j] \notin path]
    ELSE ""

\* C4 (as claimed): the scanner's result is the first name of the OS's
\* preference list that resolves in the search path, and "" when none does.
C4_ScannerFirstResolvable ==
    tool # Unset => tool = FirstResolvable(PreferenceList(osType), installed)

\* C5 (as claimed): on macOS with neither m1ddc nor ddcctl resolvable, SetVCP
\* and GetVCP with a numeric monitor ID return "no DDC tools available" and
\* start no helper, whatever else is installed.
C5_NoToolIsReportedFailure ==
    (MacVCPEnded /\ "m1ddc" \notin installed /\ "ddcctl" \notin installed)
        => /\ pc = "done"
           /\ ret.err = "no DDC tools available"
           /\ ran = << >>

\* C6: in every result of validateDDCSupport with an available tool: a failed
\* first read gives CanReadValues = CanWriteValues = FALSE; a successful read
\* with a re-read that differs from the probe value gives CanReadValues = TRUE,
\* CanWriteValues = FALSE; CanWriteValues implies CanReadValues and ToolAvailable.
C6_ValidationFlags ==
    ValidationReturned =>
        /\ (~FirstReadOK
              => ~validation.CanReadValues /\ ~validation.CanWriteValues)
        /\ (FirstReadOK /\ ReReadOK /\ newBrightness # testValue
              => validation.CanReadValues /\ ~validation.CanWriteValues)
        /\ (validation.CanWriteValues
              => validation.CanReadValues /\ validation.ToolAvailable)

\* C6 witness: a validation that read the brightness, wrote the probe, read
\* back another value and returned
C6_Witness ==
    /\ ValidationReturned
    /\ FirstReadOK
    /\ ReReadOK
    /\ newBrightness # testValue
    /\ validation.CanReadValues
    /\ ~validation.CanWriteValues

\* C7 (as claimed): the outcome "DDC commands execute but have no effect" is
\* reported exactly when the probe write executed, the re-read succeeded and
\* the value read back differs from the probe value.
C7_WriteIneffectiveExactly ==
    ValidationReturned =>
        ((validation.ValidationError = WriteIneffectiveText)
            <=> (ProbeWriteExecuted /\ ReReadOK /\ newBrightness # testValue))

\* C8: the probe value is 85 for 95 and 60 for 50; for every original
\* brightness b in 0..100 it is b+10 when b+10 <= 100, b-10 otherwise, and it
\* lies in 0..100.
C8_ProbeValue ==
    pc = "probed" =>
        /\ (original = 95 => testValue = 85)
        /\ (original = 50 => testValue = 60)
        /\ (original \in 0..100 =>
              /\ testValue = IF original + 10 <= 100 THEN original + 10
                             ELSE original - 10
              /\ testValue \in 0..100)

\* C8 witness: the probe value of 95 has been computed as 85
C8_Witness == pc = "probed" /\ original = 95 /\ testValue = 85

\* C9 (as claimed): every helper process is started under a deadline, and no
\* call is left waiting for ever for a helper that never exits.
C9_HelpersUnderDeadline ==
    /\ \A k \in DOMAIN ran : ran[k].deadline > 0
    /\ pc # "hung"

\* C10 (as claimed): on macOS, when system_profiler exits with an error or its
\* output cannot be parsed, DetectMonitors returns a non-nil error.
C10_InventoryFailureReported ==
    (/\ entry = "DetectMonitors"
     /\ osType = OSMacOS
     /\ pc = "done"
     /\ ran[1].outcome \in {"fail", "unparsable"})
        => ret.err # ""

\* DetectMonitors has returned on an OS with a detection path, after every
\* helper it started ran successfully
DetectedWithAllHelpersOK ==
    /\ entry = "DetectMonitors"
    /\ osType \in {OSLinux, OSMacOS}
    /\ pc = "done"
    /\ ran # << >>
    /\ \A k \in DOMAIN ran : ran[k].outcome = "ok"

\* C11 (as claimed): when every helper runs successfully and no external
\* monitor is found, DetectMonitors returns the empty list and no error, on
\* Linux and on macOS.
C11_ZeroMonitorsIsNoError ==
    (DetectedWithAllHelpersOK /\ ret.monitors = << >>) => ret.err = ""

\* the names input sources go by: those of the Linux code table and those
\* of the macOS input table
InputNames ==
    {linuxInputCodeToName(code) : code \in 0..255}
        \cup {e[1] : e \in M1DDCInputSources}

\* a detection path has returned its monitor list
DetectionReturned ==
    /\ entry \in {"DetectMonitors", "enhancedDisplayWithValidation", "detectWithDdcutil"}
    /\ pc = "done"

\* C12 (as claimed): in every Monitor a detection path returns, CurrentInput
\* is empty or the name of an input source, optionally followed by
\* " (read-only)": never the bare numeric VCP code.
C12_CurrentInputIsAName ==
    DetectionReturned =>
        \A k \in DOMAIN ret.monitors :
            ret.monitors[k].CurrentInput \in
                {""} \cup InputNames \cup {n \o " (read-only)" : n \in InputNames}

\* C13: every Monitor parseXrandrOutput and getSystemProfilerDisplays build,
\* whatever the text or the inventory, has an empty Inputs map and an empty
\* CurrentInput.
C13_EnumerationsCarryNoInputs ==
    (pc = "parsed" /\ entry \in {"parseXrandrOutput", "getSystemProfilerDisplays"})
        => \A k \in DOMAIN ret.monitors :
              /\ ret.monitors[k].Inputs = {}
              /\ ret.monitors[k].CurrentInput = ""

\* C13 witness: parseXrandrOutput has built Monitors for two listed connections
C13_Witness ==
    /\ pc = "parsed"
    /\ entry = "parseXrandrOutput"
    /\ Len(ret.monitors) = 2
    /\ ret.monitors[1].Name = "HDMI-1"
    /\ ret.monitors[2].Inputs = {}

\* the IDs of a monitor list, in order
IDsOf(ms) == [k \in DOMAIN ms |-> ms[k].ID]

PairwiseDistinct(q) == \A i, j \in DOMAIN q : i # j => q[i] # q[j]

IsHeaderLine(line) == line.number # ""

\* the display numbers of the "Display N" header lines, in transcript order
HeaderNumbers(lines) ==
    LET headers == SelectSeq(lines, IsHeaderLine)
    IN  [k \in DOMAIN headers |-> headers[k].number]

\* C14 (as claimed): the IDs of the list one detection returns are pairwise
\* distinct, for parseXrandrOutput on every text and for
\* parseDdcutilDetectOutput on every transcript whose headers carry distinct
\* display numbers, also when a line "Display ..." without a number occurs.
C14_IDsPairwiseDistinct ==
    pc = "parsed" =>
        /\ entry = "parseXrandrOutput" => PairwiseDistinct(IDsOf(ret.monitors))
        /\ (/\ entry = "parseDdcutilDetectOutput"
            /\ PairwiseDistinct(HeaderNumbers(args.lines)))
              => PairwiseDistinct(IDsOf(ret.monitors))

\* C15 (as claimed): parseDdcutilDetectOutput returns one Monitor per
\* "Display N" header line, with the captured numbers as IDs in transcript
\* order.
C15_OneMonitorPerHeader ==
    (pc = "parsed" /\ entry = "parseDdcutilDetectOutput")
        => IDsOf(ret.monitors) = HeaderNumbers(args.lines)

\* the fixed code-to-name table of the input sources, and the name of the
\* unknown code 0xC8
InputSourceNames ==
    [code \in {1, 3, 4, 15, 17, 18, 19, 200} |->
        CASE code = 15 -> "DisplayPort"
          [] code = 17 -> "HDMI-1"
          [] code = 18 -> "HDMI-2"
          [] code = 19 -> "HDMI-3"
          [] code = 3 -> "DVI-1"
          [] code = 4 -> "DVI-2"
          [] code = 1 -> "VGA"
          [] OTHER -> "Input-0xC8"]

\* the position of the line that ends the search of parseLinuxInputSources:
\* the first Values line or other Feature line after the first header of the
\* input source feature (0: there is none)
DecidingLine(lines) ==
    LET headers == {k \in DOMAIN lines : lines[k].kind = "header"}
        after == {k \in DOMAIN lines :
                     /\ headers # {}
                     /\ k > Least(headers)
                     /\ lines[k].kind \in {"values", "feature"}}
    IN  IF after = {} THEN 0 ELSE Least(after)

\* C16: parseLinuxInputSources on "Feature: 60 (Input Source)" followed by
\* "Values: 0F 11 12" returns exactly {DisplayPort: 0x0F, HDMI-1: 0x11,
\* HDMI-2: 0x12}; in general it returns one entry per hex code of the first
\* Values line after the header, named by the code table, and nothing when
\* another Feature line comes first or the header is absent.
C16_InputSourcesOfValuesLine ==
    (pc = "parsed" /\ entry = "parseLinuxInputSources") =>
        /\ args.output = "Feature: 60 (Input Source)\nValues: 0F 11 12"
              => ret.inputs = {<<"DisplayPort", 15>>, <<"HDMI-1", 17>>, <<"HDMI-2", 18>>}
        /\ LET d == DecidingLine(args.lines)
           IN  IF d # 0 /\ args.lines[d].kind = "values"
               THEN ret.inputs = {<<InputSourceNames[code], code>> :
                                     code \in args.lines[d].codes}
               ELSE ret.inputs = {}

\* C16 witness: the two lines of the example have been parsed into the three
\* inputs
C16_Witness ==
    /\ pc = "parsed"
    /\ entry = "parseLinuxInputSources"
    /\ args.output = "Feature: 60 (Input Source)\nValues: 0F 11 12"
    /\ Cardinality(ret.inputs) = 3

\* parseVCPValue has been applied to the output of tool t
ValueParsed(t) ==
    /\ pc = "parsed"
    /\ entry = "parseVCPValue"
    /\ args.tool = t

C18_FallbackFirstInteger ==
    (ValueParsed("ddcctl") \/ ValueParsed("m1ddc")) =>
        /\ (args.labelled = -1 /\ args.first # -1)
              => ret.err = "" /\ ret.value = args.first
        /\ ret.err # ""
              => /\ args.first = -1
                 /\ ret.err = "could not parse value from output: '"
                                 \o TrimSpace(args.output) \o "'"

\* the xrandr --listmonitors output of the end-to-end scenario
XrandrScenarioOutput == "Monitors: 1\n 0: +HDMI-1 1920x1080+0+0  HDMI-1"

\* DetectMonitors has ended on Linux with no DDC tool resolvable
LinuxDetectedWithoutTools ==
    /\ entry = "DetectMonitors"
    /\ osType = OSLinux
    /\ installed \cap {"ddcutil", "ddccontrol"} = {}
    /\ pc = "done"

\* C19: on Linux with no DDC tool resolvable, DetectMonitors falls through
\* from the helper-tool path to xrandr, and when xrandr prints "Monitors: 1"
\* and " 0: +HDMI-1 1920x1080+0+0  HDMI-1" it returns one Monitor named
\* "HDMI-1" with no Inputs and no CurrentInput, and no error.
C19_XrandrFallbackScenario ==
    LinuxDetectedWithoutTools =>
        /\ ran[Len(ran)].bin = "xrandr"
        /\ \A k \in 1..(Len(ran) - 1) :
              ran[k].bin = "ddcutil" /\ ran[k].outcome # "ok"
        /\ (ran[Len(ran)].outcome = "ok" /\ ran[Len(ran)].output = XrandrScenarioOutput)
              => /\ ret.err = ""
                 /\ Len(ret.monitors) = 1
                 /\ ret.monitors[1].Name = "HDMI-1"
                 /\ ret.monitors[1].Inputs = {}
                 /\ ret.monitors[1].CurrentInput = ""

\* C19 witness: the scenario has happened: ddcutil could not be started,
\* xrandr printed the listing, one Monitor was returned
C19_Witness ==
    /\ LinuxDetectedWithoutTools
    /\ Len(ran) = 2
    /\ ran[1].bin = "ddcutil"
    /\ ran[1].outcome = "notfound"
    /\ ran[2].output = XrandrScenarioOutput
    /\ Len(ret.monitors) = 1

IsExternal(ndrv) == ndrv.ConnectionType # "spdisplays_internal"

\* the vendors the known-vendor table names, by vendor id
KnownVendors ==
    { <<"610", "Apple">>, <<"5e3", "ASUS">>, <<"10ac", "Dell">>, <<"1e6d", "LG">>,
      <<"4c2d", "Samsung">> }

\* the name of a display: the tool's, else "<Vendor> Display", else
\* "External Display <id>"
NamedAsSpecified(name, ndrv) ==
    IF ndrv.Name \notin {"", "(null)"} THEN name = ndrv.Name
    ELSE IF \E v \in KnownVendors : v[1] = ndrv.DisplayVendorID
    THEN \E v \in KnownVendors :
            v[1] = ndrv.DisplayVendorID /\ name = v[2] \o " Display"
    ELSE name = "External Display " \o ndrv.DisplayID

\* C20: getSystemProfilerDisplays returns one Monitor per inventory entry
\* whose connection type is not internal, in inventory order, none for the
\* internal ones (one internal and one external entry give one Monitor), each
\* with a non-empty Name: the tool's, else "<Vendor> Display", else
\* "External Display <id>".
C20_ExternalDisplaysOnly ==
    (pc = "parsed" /\ entry = "getSystemProfilerDisplays" /\ args.outcome = "ok") =>
        LET external == SelectSeq(args.inventory, IsExternal)
        IN  /\ Len(ret.monitors) = Len(external)
            /\ \A k \in DOMAIN external :
                  /\ ret.monitors[k].ID = external[k].DisplayID
                  /\ ret.monitors[k].Name # ""
                  /\ NamedAsSpecified(ret.monitors[k].Name, external[k])
            /\ (Len(args.inventory) = 2 /\ Len(external) = 1)
                  => Len(ret.monitors) = 1

\* C20 witness: an inventory of the built-in panel and an external display
\* without a name has given the one Monitor "LG Display"
C20_Witness ==
    /\ pc = "parsed"
    /\ entry = "getSystemProfilerDisplays"
    /\ Len(args.inventory) = 2
    /\ ~IsExternal(args.inventory[1])
    /\ Len(ret.monitors) = 1
    /\ ret.monitors[1].Name = "LG Display"

\* the four methods of the DDCClient interface
FacadeMethods == {"DetectMonitors", "GetCapabilities", "SetVCP", "GetVCP"}

\* the helper binaries of each OS back end
BackEndHelpers(os) ==
    CASE os = OSLinux -> {"ddcutil", "xrandr"}
      [] os = OSMacOS -> {"system_profiler", "m1ddc", "ddcctl"}
      [] OTHER -> {}

\* a helper that ended in failure is started again with the same arguments
RetriedAt(k) ==
    /\ ~ExitedOK(ran[k].outcome)
    /\ ran[k + 1].bin = ran[k].bin
    /\ ran[k + 1].argv = ran[k].argv

\* C21: each of DetectMonitors, GetCapabilities, SetVCP and GetVCP dispatches
\* only on the client's OSType: the helpers it starts are those of the back
\* end of that OSType; for an OSType outside linux, darwin and windows it
\* returns an "unsupported OS" error and starts no helper process; and no
\* helper that failed is started again (no retry of a failed transport call).
C21_DispatchOnOSTypeOnly ==
    (entry \in FacadeMethods) =>
        /\ \A k \in DOMAIN ran : ran[k].bin \in BackEndHelpers(osType)
        /\ (osType \notin {OSLinux, OSMacOS, OSWindows}) =>
              /\ pc = "done"
              /\ ret.err = "unsupported OS"
              /\ ret.monitors = << >>
              /\ ran = << >>
        /\ \A k \in 1..(Len(ran) - 1) : ~RetriedAt(k)

\* C21 witness: GetCapabilities on a client whose OSType is none of the three
\* has returned "unsupported OS" without starting a helper
C21_Witness ==
    /\ entry = "GetCapabilities"
    /\ osType = OSOther
    /\ pc = "done"
    /\ ret.err = "unsupported OS"
    /\ ran = << >>

\* C25: for every 16-bit original brightness (original+10 taken modulo 2^16)
\* the probe value chosen by testWriteBrightness differs from the original,
\* so a write that has no effect is never read back as equal to the probe
\* value.
C25_ProbeDiffersFromOriginal ==
    /\ pc \in {"probed", "reread"} =>
          /\ testValue # original
          /\ testValue \in 0..(Uint16Mod - 1)
    /\ pc = "reread" => newBrightness # testValue

\* C25 witness: for the original 65530 the sum wraps to the probe value 4, and
\* the unchanged brightness 65530 has been read back
C25_Witness ==
    /\ pc = "reread"
    /\ original = 65530
    /\ testValue = 4
    /\ newBrightness = 65530

\* a complete run of enhancedDisplayWithValidation, every helper having
\* exited 0 with the effect it was started for
CompleteSuccessfulRun ==
    /\ entry = "enhancedDisplayWithValidation"
    /\ pc = "done"
    /\ ran # << >>
    /\ \A k \in DOMAIN ran : ran[k].outcome = "ok"

\* the input source the run read as the current one before it tested inputs
InputBefore == Atoi(ret.monitors[1].CurrentInput)

\* C26 (as claimed): a complete run of enhancedDisplayWithValidation in which
\* every helper command succeeds leaves the monitor's live state as it found
\* it: its brightness equals the original brightness and its active input
\* source equals the one that was active before the call.
C26_LiveStateRestored ==
    CompleteSuccessfulRun =>
        /\ brightness[displayNum] = original
        /\ InputBefore.ok => activeInputAfter(InputBefore.n, ran) = InputBefore.n

\* C30 (as claimed): whenever parseVCPValue succeeds, the 16-bit value it
\* returns is numerically equal to the decimal integer it matched in the
\* helper output, also for a matched integer greater than 65535: it is one of
\* the integers written in the output (the labelled one when the tool's
\* label is present), never a wrapped value.
C30_ValueEqualsMatchedInteger ==
    ((ValueParsed("ddcctl") \/ ValueParsed("m1ddc")) /\ ret.err = "") =>
        /\ ret.value \in args.numbers
        /\ args.labelled # -1 => ret.value = args.labelled

\* a call of the Detector (or the detect command) has returned
DetectorReturned(method) ==
    /\ entry = method
    /\ pc = "done"

\* what the macOS version sources give on the machine of the call
MacOSSources == GetMacOSSystemInfo(NoMacOSInfo, args.env)

\* C22 (as claimed): on macOS, DetectMacOSInfo obtains the product name and
\* version from sw_vers first and, only when that fails, from
\* SystemVersion.plist; when either source succeeds, the record it returns
\* and the string GetOSInfo returns carry that product name and version.
C22_ProductNameAndVersion ==
    /\ (DetectorReturned("DetectMacOSInfo") /\ osType = OSMacOS
            /\ MacOSSources.err = "")
          => /\ ret.err = ""
             /\ ret.info.ProductName = MacOSSources.info.ProductName
             /\ ret.info.ProductVersion = MacOSSources.info.ProductVersion
    /\ (DetectorReturned("GetOSInfo") /\ osType = OSMacOS /\ MacOSSources.err = "")
          => ret.text = "Operating System: darwin ("
                           \o MacOSSources.info.ProductName \o " "
                           \o MacOSSources.info.ProductVersion \o ")"

C28_SupportedIffMessageSaysSo ==
    /\ DetectorReturned("CheckDDCSupport") =>
          /\ ret.supported <=> Contains(ret.message, "DDC/CI support detected")
          /\ (osType = OSWindows /\ installed \cap {"ddccci", "ControlMyMonitor"} # {})
                => ret.supported
    /\ (DetectorReturned("Detector.DetectMonitors") /\ osType = OSWindows
            /\ installed \cap {"ddccci", "ControlMyMonitor"} # {})
          => ret.err # "no DDC/CI tools available"

\* the distribution fields of a LinuxInfo
DistributionFields == {"Name", "Version", "ID", "VersionID", "PrettyName", "Codename"}

\* the record the source that succeeded gives when it alone is read
SingleSource(env) ==
    LET source == getDistributionInfo(NoLinuxInfo, env).source
    IN  CASE source = "os-release" -> parseOSRelease(NoLinuxInfo, env.osRelease).info
          [] source = "lsb-release" -> parseLSBRelease(NoLinuxInfo, env.lsbRelease).info
          [] OTHER -> parseDistributionSpecificFiles(NoLinuxInfo, env.markers).info

\* C29 (as claimed): in the chain os-release, lsb-release, marker files a
\* source that fails leaves the LinuxInfo record unchanged, so the
\* distribution fields of the returned record all come from the single
\* source that succeeded.
C29_FieldsFromSingleSource ==
    (DetectorReturned("DetectLinuxInfo") /\ osType = OSLinux /\ ret.err = "") =>
        \A f \in DistributionFields : ret.info[f] = SingleSource(args.env)[f]

\* a native call has returned
NativeReturned(function) ==
    /\ entry = function
    /\ pc = "done"

\* the XOR of a seed with every byte of a sequence
RECURSIVE XorAll(_, _)
XorAll(seed, bytes) ==
    IF bytes = << >> THEN seed
    ELSE The({ XorAll(x, Tail(bytes)) : x \in {Xor(seed, Head(bytes))} })

\* the XOR of the destination address 0x6E with the first five bytes of a
\* command
ChecksumOver(frame) == XorAll(110, SubSeq(frame, 1, 5))

\* C23 (as claimed): the native SetVCP sends exactly 6 bytes (0x51, 0x84,
\* feature code, value high byte, value low byte, checksum), and the checksum
\* byte equals the XOR of the destination address 0x6E with all five
\* preceding bytes of the command.
C23_ChecksumOverCommand ==
    NativeReturned("native SetVCP") =>
        \A k \in DOMAIN ret.sent :
            LET frame == ret.sent[k]
            IN  /\ Len(frame) = 6
                /\ SubSeq(frame, 1, 5) =
                      <<81, 132, args.featureCode, (args.value \div 256) % 256,
                        args.value % 256>>
                /\ frame[6] = ChecksumOver(frame)

\* a bus returned a reply whose opcode-echo byte is 0x02 and whose
\* feature-code byte is the requested feature code
MatchingReplyReturned ==
    /\ args.service
    /\ \E k \in DOMAIN args.buses :
          /\ args.buses[k].kind = "sent"
          /\ Len(args.buses[k].bytes) >= 5
          /\ args.buses[k].bytes[3] = 2
          /\ args.buses[k].bytes[5] = args.featureCode

\* C24: the native GetVCP returns status 0 and writes the current and the
\* maximum value only when some bus returned a reply whose opcode-echo byte
\* is 0x02 and whose feature-code byte equals the requested feature code; in
\* every other case (no display service, every bus rejects, reply malformed
\* or mismatched) it returns a negative status and leaves both
\* out-parameters unwritten.
C24_ValuesOnlyFromMatchingReply ==
    NativeReturned("native GetVCP") =>
        /\ ret.status = 0 =>
              /\ MatchingReplyReturned
              /\ ret.currentValue # Unwritten
              /\ ret.maxValue # Unwritten
        /\ ret.status # 0 =>
              /\ ret.status < 0
              /\ ret.currentValue = Unwritten
              /\ ret.maxValue = Unwritten
        /\ ~MatchingReplyReturned => ret.status < 0
        /\ ~args.service => ret.status = -1

\* C24 witness: the first bus returned the reply to another feature code,
\* the second the reply to the requested one, and GetVCP has returned 0 with
\* the values of the second reply
C24_Witness ==
    /\ NativeReturned("native GetVCP")
    /\ Len(args.buses) = 2
    /\ args.buses[1].kind = "sent"
    /\ Len(args.buses[1].bytes) = 11
    /\ args.buses[1].bytes[5] # args.featureCode
    /\ ret.status = 0
    /\ ret.currentValue = 50
    /\ ret.maxValue = 100

====
